---- MODULE Spec2Model ----
(***************************************************************************)
(* A model of boom-core: the calendar/time kernel (src/src/time.rs), the   *)
(* solar event solver (src/src/observer.rs) and the quadrature engine      *)
(* (src/src/cosmo.rs).                                                     *)
(*                                                                         *)
(* Numbers.  The program computes in IEEE-754 binary64.  TLC has 32-bit    *)
(* integers only, so every f64 quantity is carried as exact small integers *)
(* in a unit fine enough for what the code does with it:                   *)
(*   - a Julian Date is [day, sec, sub, nan]: day = floor(JD), sec the     *)
(*     whole seconds since that noon, sub the rest in units of 2^-24 s.    *)
(*     For 2^21 <= JD < 2^22 (years 1030..6770) the spacing of f64 is      *)
(*     2^-31 day = 675 sub-units, and a finite JD is a multiple of it;     *)
(*     the roundings of to_jd and from_jd are computed exactly;            *)
(*   - nan = TRUE is the f64 NaN;                                          *)
(*   - an angle is a whole number of micro-degrees, a sine or cosine a     *)
(*     whole number of 2^-15ths: sidereal times are good to 4 micro-       *)
(*     degrees and solar events to a few seconds at latitudes up to 80;    *)
(*   - a value of the quadrature engine is an exact fraction, or an        *)
(*     infinity or NaN: the roundings of its f64 operations are left out.  *)
(***************************************************************************)
EXTENDS Integers, Sequences, FiniteSets, TLC

VARIABLES
    calls,   \* the operations applied so far, oldest first
    T0,      \* the Time the chain of calls started from
    T,       \* the Time register: the latest Time produced
    J0,      \* the Julian Date the chain of calls started from
    J,       \* the Julian Date register: the latest Julian Date produced
    obs,     \* the Observer
    alt,     \* the solar altitude asked of the solar event solver
    gst,     \* the latest Greenwich sidereal time produced
    lst,     \* the latest local sidereal time produced
    sun,     \* the latest result of the solar event solver
    quad,    \* the latest call of the quadrature engine and its result
    dist,    \* the cosmology, the redshift asked of it and what it returned
    args,    \* the arguments the latest constructor was called with
    M,       \* the Modified Julian Date register
    air,     \* the targets and times asked about and the airmasses returned
    fmt,     \* the angle given to a sexagesimal formatter and its outcome
    str,     \* the RFC 3339 string given to Time::from_isot_str
    shared,  \* the values that concurrent callers borrow
    threads  \* each concurrent caller: its call, its position and its result

timeVars == <<T0, T, J0, J>>
skyVars == <<obs, alt, gst, lst, sun>>
otherVars == <<args, M, air, fmt, str, shared, threads>>
vars == <<calls, T0, T, J0, J, obs, alt, gst, lst, sun, quad, dist, otherVars>>

----------------------------------------------------------------------------
(* Arithmetic helpers *)

Abs(x) == IF x < 0 THEN -x ELSE x

\* Rust integer division and `as i32` of a quotient: truncation toward zero.
TruncDiv(a, b) == IF a >= 0 THEN a \div b ELSE -((-a) \div b)

RECURSIVE PowMod2(_, _)
\* 2^p mod m
PowMod2(p, m) == IF p = 0 THEN 1 % m ELSE (2 * PowMod2(p - 1, m)) % m

SubPerSec == 2^24           \* sub-units in one second
TickSub == 86400 \div 128   \* sub-units in one f64 step of a JD: 2^-31 day

----------------------------------------------------------------------------
(* Values *)

MkTime(y, mo, d, h, mi, s) ==
    [year |-> y, month |-> mo, day |-> d, hour |-> h, minute |-> mi, second |-> s]

MkJd(d, s, u) == [day |-> d, sec |-> s, sub |-> u, nan |-> FALSE]

NanJd == [day |-> 0, sec |-> 0, sub |-> 0, nan |-> TRUE]

NoTime == MkTime(0, 0, 0, 0, 0, 0)
NoJd == MkJd(0, 0, 0)

\* The f64 nearest to day + (secs + sub/2^24)/86400 days (secs whole seconds
\* of any sign, 0 <= sub < 2^24): the rounding of the last addition of a sum
\* whose terms are exact.  As 675 is odd, no value is half-way between two
\* multiples of it.
F64Jd(day, secs, sub) ==
    LET d == day + (secs \div 86400)
        s == secs % 86400
        r == ((s % TickSub) * (SubPerSec % TickSub) + sub) % TickSub
        u == IF 2 * r < TickSub THEN sub - r ELSE sub + TickSub - r
        s1 == s + (u \div SubPerSec)
    IN  MkJd(d + (s1 \div 86400), s1 % 86400, u % SubPerSec)

\* a < b, a <= b on finite Julian Dates
JdLess(a, b) ==
    \/ a.day < b.day
    \/ a.day = b.day /\ a.sec < b.sec
    \/ a.day = b.day /\ a.sec = b.sec /\ a.sub < b.sub

JdLeq(a, b) == JdLess(a, b) \/ (a.day = b.day /\ a.sec = b.sec /\ a.sub = b.sub)

----------------------------------------------------------------------------
(* time.rs: Time::new *)

\* Time::new bringing each field into its calendar range
new_Clamped(year, month, day, hour, minute, second) ==
    LET within(x, lo, hi) == IF x < lo THEN lo ELSE IF x > hi THEN hi ELSE x
    IN  MkTime(year, within(month, 1, 12), within(day, 1, 31),
               within(hour, 0, 23), within(minute, 0, 59), within(second, 0, 59))

new(year, month, day, hour, minute, second) ==
    MkTime(year, month, day, hour, minute, second)

(* time.rs: Time::to_jd *)

\* to_jd without its seconds term
to_jd_SecondsDropped(self) ==
    LET dn == 367 * self.year - (((self.year + ((self.month + 9) \div 12)) * 7) \div 4)
              + ((275 * self.month) \div 9) + self.day + 1721013
    IN  F64Jd(dn, 43200 + 3600 * self.hour + 60 * self.minute, 0)

\* 367 Y - floor(floor(Y + (M+9)/12) 7/4) + floor(275 M/9) + D + 1721013.5
\*   + (h + m/60 + s/3600)/24
\* Every term but the last is an integer or a half, so the sum is exact up
\* to the last addition, which rounds to the f64 grid.
to_jd(self) ==
    LET year == self.year
        month == self.month
        day == self.day
        hour == self.hour
        minute == self.minute
        second == self.second
        dn == 367 * year - (((year + ((month + 9) \div 12)) * 7) \div 4)
              + ((275 * month) \div 9) + day + 1721013
    IN  F64Jd(dn, 43200 + 3600 * hour + 60 * minute + second, 0)

----------------------------------------------------------------------------
(* time.rs: Time::from_jd *)

\* Where 2^52 <= n * 2^p / d < 2^53, for 0 < n < d: the scale of the f64
\* quotient n/d.
RECURSIVE QuotScale(_, _, _)
QuotScale(n, d, j) == IF n * 2^j >= d THEN 52 + j ELSE QuotScale(n, d, j + 1)

\* The rounding error of the f64 quotient n/d (0 <= n < d), in seconds of a
\* day scaled by 2^63:  fl(n/d) = n/d + QuotErr(n, d) / (86400 * 2^63).
\* d divides 86400, and n * 2^p is never half-way between two multiples of d.
QuotErr(n, d) ==
    IF n = 0 THEN 0
    ELSE LET p == QuotScale(n, d, 0)
             r == ((n % d) * PowMod2(p, d)) % d
             eps == IF 2 * r < d THEN -r ELSE d - r
         IN  (86400 \div d) * eps * 2^(63 - p)

\* Half the spacing of f64 just below the whole number n >= 1, scaled by 2^63.
RECURSIVE HalfUlpBelow(_, _)
HalfUlpBelow(n, e) == IF 2^(e + 1) >= n THEN 2^(e + 10) ELSE HalfUlpBelow(n, e + 1)

\* (x * per') as i32, where the f64 x is (whole + sub/2^24 seconds) less
\* err/2^63 seconds, and per = 86400/per' is the length of the unit in
\* seconds.  Off the whole units the error is far too small to matter; on a
\* whole unit n, a positive err leaves the product below n unless it rounds
\* back up to n.
TruncF64(whole, sub, err, per) ==
    LET n == whole \div per
    IN  IF sub # 0 \/ whole % per # 0 THEN n
        ELSE IF err <= 0 THEN n
        ELSE IF n = 0 THEN 0
        ELSE IF err \div per <= HalfUlpBelow(n, 0) THEN n
        ELSE n - 1

\* Lines 235-239: hour, minute and second by successive residues of f.
\* fsec, fsub: f = temp - z in seconds and sub-units.
TimeOfDay(fsec, fsub) ==
    LET hour == Abs(TruncF64(fsec, fsub, 0, 3600))
        f1 == fsec - 3600 * hour
        err1 == QuotErr(hour, 24)
        minute == Abs(TruncF64(f1, fsub, err1, 60))
        f2 == f1 - 60 * minute
        err2 == err1 + QuotErr(minute, 1440)
        second == Abs(TruncF64(f2, fsub, err2, 1))
    IN  [hour |-> hour, minute |-> minute, second |-> second]

\* from_jd with e - 1 taken as the month whatever e is
from_jd_MonthUnwrapped(jd) ==
    LET \* temp = jd + 0.5; z = temp.floor() as i32 (NaN as i32 is 0)
        carry == IF jd.sec + 43200 >= 86400 THEN 1 ELSE 0
        z == IF jd.nan THEN 0 ELSE jd.day + carry
        \* f = temp - z
        fsec == IF jd.nan THEN 0 ELSE (jd.sec + 43200) % 86400
        fsub == IF jd.nan THEN 0 ELSE jd.sub
        \* alpha = floor((z - 1867216.25) / 36524.25)
        alpha == (100 * z - 186721625) \div 3652425
        a == IF z > 2299161 THEN z + 1 + alpha - TruncDiv(alpha, 4) ELSE z
        b == a + 1524
        \* c = floor((b - 122.1) / 365.25)
        c == (20 * b - 2442) \div 7305
        \* d = (365.25 * c) as i32
        d == TruncDiv(1461 * c, 4)
        \* e = floor((b - d) / 30.6001) as i32
        e == ((b - d) * 10000) \div 306001
        \* f as i32 = 0, as 0 <= f < 1 (and NaN as i32 = 0)
        day == b - d - TruncDiv(306001 * e, 10000) + 0
        month == e - 1
        year == IF month > 2 THEN c - 4716 ELSE c - 4715
        tod == TimeOfDay(fsec, fsub)
    IN  MkTime(year, month, day, tod.hour, tod.minute, tod.second)

from_jd(jd) ==
    LET \* temp = jd + 0.5; z = temp.floor() as i32 (NaN as i32 is 0)
        carry == IF jd.sec + 43200 >= 86400 THEN 1 ELSE 0
        z == IF jd.nan THEN 0 ELSE jd.day + carry
        \* f = temp - z
        fsec == IF jd.nan THEN 0 ELSE (jd.sec + 43200) % 86400
        fsub == IF jd.nan THEN 0 ELSE jd.sub
        \* alpha = floor((z - 1867216.25) / 36524.25)
        alpha == (100 * z - 186721625) \div 3652425
        a == IF z > 2299161 THEN z + 1 + alpha - TruncDiv(alpha, 4) ELSE z
        b == a + 1524
        \* c = floor((b - 122.1) / 365.25)
        c == (20 * b - 2442) \div 7305
        \* d = (365.25 * c) as i32
        d == TruncDiv(1461 * c, 4)
        \* e = floor((b - d) / 30.6001) as i32
        e == ((b - d) * 10000) \div 306001
        \* f as i32 = 0, as 0 <= f < 1 (and NaN as i32 = 0)
        day == b - d - TruncDiv(306001 * e, 10000) + 0
        month == IF e < 14 THEN e - 1 ELSE e - 13
        year == IF month > 2 THEN c - 4716 ELSE c - 4715
        tod == TimeOfDay(fsec, fsub)
    IN  MkTime(year, month, day, tod.hour, tod.minute, tod.second)

----------------------------------------------------------------------------
(* time.rs: Time::to_mjd and Time::from_mjd.  A Modified Julian Date is    *)
(* [day, sec, sub, fine, nan]: day = floor(MJD), sec the whole seconds     *)
(* since that midnight, sub the rest in 2^-24 s and fine what is left in   *)
(* 64ths of a sub-unit.  For 2^15 <= MJD < 2^16 (years 1948..2038) the     *)
(* spacing of f64 is 2^-37 day, one 64th of the spacing of a Julian Date.  *)

MkMjd(d, s, u, f) == [day |-> d, sec |-> s, sub |-> u, fine |-> f, nan |-> FALSE]

NanMjd == [day |-> 0, sec |-> 0, sub |-> 0, fine |-> 0, nan |-> TRUE]

NoMjd == MkMjd(0, 0, 0, 0)

\* self.to_jd() - 2400000.5: the difference is a multiple of 2^-31 day
\* below 2^22 in size, so the subtraction is exact.
to_mjd(self) ==
    LET jd == to_jd(self)
        s == jd.sec + 43200
    IN  MkMjd(jd.day - 2400001 + (s \div 86400), s % 86400, jd.sub, 0)

\* The f64 sum mjd + 2400000.5: the nearest multiple of 2^-31 day, and of
\* two equally near the one whose count of steps is even.
MjdPlusOffset(mjd) ==
    LET s == mjd.sec + 43200
        r0 == s % TickSub
        r == (r0 * (SubPerSec % TickSub) + mjd.sub) % TickSub
        below == ((SubPerSec \div TickSub) * r0
                    + ((SubPerSec % TickSub) * r0 + mjd.sub) \div TickSub) % 2
        r64 == 64 * r + mjd.fine
        up == 2 * r64 > 64 * TickSub \/ (2 * r64 = 64 * TickSub /\ below = 1)
        u == mjd.sub - r + (IF up THEN TickSub ELSE 0)
        s1 == s + (u \div SubPerSec)
    IN  IF mjd.nan THEN NanJd
        ELSE MkJd(mjd.day + 2400000 + (s1 \div 86400), s1 % 86400, u % SubPerSec)

\* from_mjd with the sum cut down to the multiple of 2^-31 day below it
from_mjd_SumTruncated(mjd) ==
    LET s == mjd.sec + 43200
        r == ((s % TickSub) * (SubPerSec % TickSub) + mjd.sub) % TickSub
        u == mjd.sub - r
        s1 == s + (u \div SubPerSec)
    IN  IF mjd.nan THEN from_jd(NanJd)
        ELSE from_jd(MkJd(mjd.day + 2400000 + (s1 \div 86400), s1 % 86400, u % SubPerSec))

from_mjd(mjd) == from_jd(MjdPlusOffset(mjd))

----------------------------------------------------------------------------
(* Angles.  An angle is a whole number of micro-degrees.  One too large    *)
(* for 32 bits is a pair <<turns, rest>> standing for turns * 360 degrees  *)
(* + rest, with 0 <= rest < 360 degrees.                                   *)

Deg == 10^6          \* micro-degrees in a degree
Turn == 360 * Deg

WNorm(turns, rest) == <<turns + (rest \div Turn), rest % Turn>>

RECURSIVE WMulNat(_, _)
\* c * n as a pair, for 0 <= c < Turn and n >= 0
WMulNat(c, n) ==
    IF n = 0 THEN <<0, 0>>
    ELSE LET h == WMulNat(c, n \div 2)
         IN  WNorm(2 * h[1], 2 * h[2] + (IF n % 2 = 1 THEN c ELSE 0))

\* c * n as a pair, for 0 <= c < Turn and any n
WMul(c, n) ==
    IF n >= 0 THEN WMulNat(c, n)
    ELSE LET w == WMulNat(c, -n) IN WNorm(-w[1], -w[2])

\* Rust's x % 360.0 (the sign of the result is that of x) of a pair
WRem360(w) ==
    IF w[1] >= 0 THEN w[2]
    ELSE IF w[2] = 0 THEN 0 ELSE w[2] - Turn

\* Rust's x % 360.0 of an angle
Rem360(x) == IF x >= 0 THEN x % Turn ELSE -((-x) % Turn)

----------------------------------------------------------------------------
(* time.rs: Time::to_gst *)

\* gst = 280.46061837 + 360.98564736629 (jd - 2451545.0)
\*       + 0.000387933 t^2 - t^3 / 38710000,   t = (jd - 2451545.0) / 36525,
\* before reduction, to within 4 micro-degrees for years 1900 to 2100.
\* With jd - 2451545.0 = days + secs/86400: 360.98564736629 degrees a day
\* is one turn and 985647.36629 micro-degrees a day, 4178.07462 micro-degrees
\* a second; the terms in t change by less than a micro-degree in a day.
GstRaw(jd) ==
    LET days == jd.day - 2451545
        secs == jd.sec + (IF 2 * jd.sub >= SubPerSec THEN 1 ELSE 0)
        linear == WMul(985647, days)
        t2 == TruncDiv(days * days, 36525)
        quadratic == TruncDiv(388 * t2, 36525)
        cubic == TruncDiv(TruncDiv(t2 * days, 36525 * 36525), 39)
    IN  WNorm(days + linear[1],
              280460618 + linear[2] + TruncDiv(days * 36629, 100000)
                + 4178 * secs + ((7462 * secs) \div 100000)
                + quadratic - cubic)

to_gst(self) ==
    LET jd == to_jd(self)
    IN  WRem360(GstRaw(jd))

----------------------------------------------------------------------------
(* observer.rs: Observer *)

\* Observer::new: lat and lon in micro-degrees, elevation in metres
Observer(lat, lon, elevation) == [lat |-> lat, lon |-> lon, elevation |-> elevation]

(* observer.rs: Observer::local_sidereal_time *)

local_sidereal_time(self, time) ==
    LET g == to_gst(time)
        l == g + self.lon + Turn
    IN  Rem360(l)

----------------------------------------------------------------------------
(* Trigonometry in fixed point: a sine or cosine is a whole number of      *)
(* 2^-15ths, good to 1e-4; the argument is an angle in micro-degrees.      *)

TrigOne == 2^15

\* a / b to the nearest whole number, for a >= 0 and b > 0
RDiv(a, b) == (2 * a + b) \div (2 * b)

\* to_radians of an angle of 0 to 45 degrees, in 2^-15ths of a radian:
\* pi/180 * 2^15 / 10^6 = 0.000571906 a micro-degree
Radians(theta) ==
    LET a == theta \div 1000
        b == theta % 1000
    IN  RDiv(a * 5719, 10^4) + RDiv(a * 6 + b * 572, 10^6)

\* x - x^3/3! + x^5/5! - x^7/7!
SinSeries(x) ==
    LET x2 == RDiv(x * x, TrigOne)
        t3 == RDiv(RDiv(x2 * x, TrigOne), 6)
        t5 == RDiv(RDiv(t3 * x2, TrigOne), 20)
        t7 == RDiv(RDiv(t5 * x2, TrigOne), 42)
    IN  x - t3 + t5 - t7

\* 1 - x^2/2! + x^4/4! - x^6/6!
CosSeries(x) ==
    LET x2 == RDiv(x * x, TrigOne)
        t2 == RDiv(x2, 2)
        t4 == RDiv(RDiv(t2 * x2, TrigOne), 12)
        t6 == RDiv(RDiv(t4 * x2, TrigOne), 30)
    IN  TrigOne - t2 + t4 - t6

\* the sine of an angle of 0 to 90 degrees
SinQuadrant(theta) ==
    IF theta <= 45 * Deg THEN SinSeries(Radians(theta))
    ELSE CosSeries(Radians(90 * Deg - theta))

\* x.to_radians().sin()
SinDeg(x) ==
    LET t == x % Turn
    IN  IF t <= 90 * Deg THEN SinQuadrant(t)
        ELSE IF t <= 180 * Deg THEN SinQuadrant(180 * Deg - t)
        ELSE IF t <= 270 * Deg THEN -SinQuadrant(t - 180 * Deg)
        ELSE -SinQuadrant(Turn - t)

\* x.to_radians().cos()
CosDeg(x) == SinDeg(x + 90 * Deg)

RECURSIVE AcosSearch(_, _, _)
\* the least angle of lo..hi milli-degrees whose cosine is at most c
AcosSearch(c, lo, hi) ==
    IF lo >= hi THEN lo
    ELSE LET mid == (lo + hi) \div 2
         IN  IF CosDeg(mid * 1000) <= c THEN AcosSearch(c, lo, mid)
             ELSE AcosSearch(c, mid + 1, hi)

\* c.acos().to_degrees() in milli-degrees, for -1 <= c <= 1
AcosDeg(c) == AcosSearch(c, 0, 180000)

RECURSIVE AsinSearch(_, _, _)
\* the least angle of lo..hi milli-degrees whose sine is at least x
AsinSearch(x, lo, hi) ==
    IF lo >= hi THEN lo
    ELSE LET mid == (lo + hi) \div 2
         IN  IF SinDeg(mid * 1000) >= x THEN AsinSearch(x, lo, mid)
             ELSE AsinSearch(x, mid + 1, hi)

\* x.asin().to_degrees() in milli-degrees, for -1 <= x <= 1
AsinDeg(x) == AsinSearch(x, -90000, 90000)

RECURSIVE SqrtSearch(_, _, _)
\* the greatest r of lo..hi with r * r <= n
SqrtSearch(n, lo, hi) ==
    IF lo >= hi THEN lo
    ELSE LET mid == (lo + hi + 1) \div 2
         IN  IF mid * mid <= n THEN SqrtSearch(n, mid, hi)
             ELSE SqrtSearch(n, lo, mid - 1)

\* 1000 * sqrt(x), for 0 <= x <= 2147
Sqrt1000(x) == SqrtSearch(x * 10^6, 0, 46340)

\* k * s / 2^15 without leaving 32 bits, for k >= 0 and |s| <= 2^15
ScaleBy(k, s) == (k \div TrigOne) * s + (((k % TrigOne) * s) \div TrigOne)

----------------------------------------------------------------------------
(* observer.rs: Observer::sun_set_time *)

\* An Option is the empty set (None) or a set of one value (Some)
unwrap_or(opt, default) == IF opt = {} THEN default ELSE CHOOSE x \in opt : TRUE

\* The f64 nearest to day + ms/86400000 days
JdOfMillis(day, ms) ==
    LET r == ms % 1000
    IN  F64Jd(day, ms \div 1000, r * (SubPerSec \div 1000) + ((r * (SubPerSec % 1000)) \div 1000))

\* Days count from JD 2451545.0 and times of day are in milliseconds.  Each
\* step of the code is an operator of the values the earlier steps produced.

\* 1. n = (jd - (2451545.0 + 0.0009) - 69.184/86400).ceil(): the subtrahend
\* is 146.944 s after the noon of JD 2451545.0
JulianDayNumber(jd) ==
    (jd.day - 2451545)
      + (IF jd.sec < 146 \/ (jd.sec = 146 /\ jd.sub * 125 <= 118 * SubPerSec) THEN 0 ELSE 1)

\* 2. jstar = n + 0.0009 - lon/360: milliseconds after day n
MeanSolarTime(self) == 77760 - ((self.lon * 6) \div 25)

\* 0.98560028 * jstar, as a pair
AnomalyAdvance(w, n, jstar) ==
    WNorm(w[1], 357529100 + w[2] + ((n * 28) \div 100) + ((9856 * (jstar \div 1000)) \div 864))

\* 3. m = (357.5291 + 0.98560028 * jstar) % 360
MeanAnomaly(n, jstar) == WRem360(AnomalyAdvance(WMul(985600, n), n, jstar))

\* 4. c = 1.9148 sin(m) + 0.0200 sin(2 m) + 0.0003 sin(3 m)
EquationOfCenter(m) ==
    ScaleBy(1914800, SinDeg(m)) + ScaleBy(20000, SinDeg(2 * m)) + ScaleBy(300, SinDeg(3 * m))

\* 5. lambda = (m + c + 180.0 + 102.9372) % 360
EclipticLongitude(m, c) == Rem360(m + c + 180 * Deg + 102937200)

\* 6. jtransit = 2451545.0 + jstar + 0.0053 sin(m) - 0.0069 sin(2 lambda):
\* 0.0053 and 0.0069 day in milliseconds
SolarTransit(jstar, m, lambda) ==
    jstar + ScaleBy(457920, SinDeg(m)) - ScaleBy(596160, SinDeg(2 * lambda))

\* 7. delta_sin = sin(lambda) sin(23.4397), delta_cos = cos(asin(delta_sin))
DeclinationSin(lambda) == (SinDeg(lambda) * SinDeg(23439700)) \div TrigOne
DeclinationCos(delta_sin) == CosDeg(AsinDeg(delta_sin) * 1000)

\* num / den in 2^-15ths; a zero den gives an infinity or NaN, out of range
Quotient(num, den) ==
    IF den = 0 THEN (IF num < 0 THEN -2 * TrigOne ELSE 2 * TrigOne)
    ELSE (num \div den) * TrigOne + (((num % den) * TrigOne) \div den)

\* 8. w0_cos = (sin(solar_alt - 2.076 sqrt(elevation)/60) - sin(lat) delta_sin)
\*             / (cos(lat) delta_cos)
HourAngleCos(self, solar_alt, delta_sin, delta_cos) ==
    Quotient(SinDeg(solar_alt - ((2076 * Sqrt1000(self.elevation)) \div 60))
               - ((SinDeg(self.lat) * delta_sin) \div TrigOne),
             (CosDeg(self.lat) * delta_cos) \div TrigOne)

\* acos of a value outside [-1, 1] is NaN
AcosIsNaN(w0_cos) == w0_cos > TrigOne \/ w0_cos < -TrigOne

\* jtransit -/+ w0/360: w0/360 day is 240 ms a milli-degree of w0
EventJd(n, jtransit, w0_cos, side) ==
    IF AcosIsNaN(w0_cos) THEN NanJd
    ELSE JdOfMillis(2451545 + n, jtransit + side * 240 * AcosDeg(w0_cos))

\* 9, 10. jrise, jset and their Time objects
SunEvents(n, jtransit, w0_cos, jrise, jset) ==
    [called |-> TRUE, returned |-> "(Time, Time)", n |-> n, w0_cos |-> w0_cos,
     jtransit |-> JdOfMillis(2451545 + n, jtransit), jrise |-> jrise, jset |-> jset,
     sunrise |-> from_jd(jrise), sunset |-> from_jd(jset)]

\* the two events with their sides exchanged
SunFromHourAngle_Swapped(n, jtransit, w0_cos) ==
    SunEvents(n, jtransit, w0_cos,
              EventJd(n, jtransit, w0_cos, 1), EventJd(n, jtransit, w0_cos, -1))

SunFromHourAngle(n, jtransit, w0_cos) ==
    SunEvents(n, jtransit, w0_cos,
              EventJd(n, jtransit, w0_cos, -1), EventJd(n, jtransit, w0_cos, 1))

SunFromDeclination(self, solar_alt, n, jtransit, delta_sin) ==
    SunFromHourAngle(n, jtransit,
                     HourAngleCos(self, solar_alt, delta_sin, DeclinationCos(delta_sin)))

SunFromLongitude(self, solar_alt, n, jstar, m, lambda) ==
    SunFromDeclination(self, solar_alt, n, SolarTransit(jstar, m, lambda),
                       DeclinationSin(lambda))

SunFromAnomaly(self, solar_alt, n, jstar, m) ==
    SunFromLongitude(self, solar_alt, n, jstar, m,
                     EclipticLongitude(m, EquationOfCenter(m)))

SunFromDay(self, solar_alt, n, jstar) ==
    SunFromAnomaly(self, solar_alt, n, jstar, MeanAnomaly(n, jstar))

sun_set_time(self, after, solar_alt) ==
    SunFromDay(self, unwrap_or(solar_alt, -833000),
               JulianDayNumber(to_jd(after)), MeanSolarTime(self))

twilight_astronomical(self, after) == sun_set_time(self, after, {-18 * Deg})

twilight_nautical(self, after) == sun_set_time(self, after, {-12 * Deg})

\* twilight_civil asking for the nautical altitude
twilight_civil_Nautical(self, after) == sun_set_time(self, after, {-12 * Deg})

twilight_civil(self, after) == sun_set_time(self, after, {-6 * Deg})

----------------------------------------------------------------------------
(* Numbers of the quadrature engine: an f64 is an exact fraction num/den   *)
(* in lowest terms with den >= 0; 1/0 is +inf, -1/0 is -inf, 0/0 is NaN.   *)

RECURSIVE Gcd(_, _)
Gcd(a, b) == IF b = 0 THEN a ELSE Gcd(b, a % b)

Sign(x) == IF x > 0 THEN 1 ELSE IF x < 0 THEN -1 ELSE 0

Frac(n, d) ==
    IF d = 0 THEN [num |-> Sign(n), den |-> 0]
    ELSE LET g == Gcd(Abs(n), Abs(d))
         IN  [num |-> Sign(d) * (n \div g), den |-> Abs(d) \div g]

Whole(n) == Frac(n, 1)
QNaN == Frac(0, 0)

\* x + y over the least common denominator
QAdd(x, y) ==
    IF x.den = 0 /\ y.den = 0 THEN (IF x.num = y.num THEN x ELSE QNaN)
    ELSE IF x.den = 0 THEN x
    ELSE IF y.den = 0 THEN y
    ELSE LET g == Gcd(x.den, y.den)
         IN  Frac(x.num * (y.den \div g) + y.num * (x.den \div g),
                  x.den * (y.den \div g))

QNeg(x) == [num |-> -x.num, den |-> x.den]
QSub(x, y) == QAdd(x, QNeg(y))
\* x * y, common factors cancelled before the products are taken
QMul(x, y) ==
    IF x.den = 0 \/ y.den = 0 \/ x.num = 0 \/ y.num = 0
    THEN Frac(x.num * y.num, IF x.den = 0 \/ y.den = 0 THEN 0 ELSE 1)
    ELSE LET g1 == Gcd(Abs(x.num), y.den)
             g2 == Gcd(Abs(y.num), x.den)
         IN  Frac((x.num \div g1) * (y.num \div g2), (x.den \div g2) * (y.den \div g1))
\* x / y; a zero divisor is +0.0
QDiv(x, y) == QMul(x, Frac(y.den, y.num))

----------------------------------------------------------------------------
(* cosmo.rs: integrate *)

\* x < y; false when either is NaN
QLess(x, y) ==
    IF x.den = 0 /\ y.den = 0 THEN x.num < y.num /\ x.num # 0 /\ y.num # 0
    ELSE IF x.den = 0 THEN x.num < 0
    ELSE IF y.den = 0 THEN y.num > 0
    ELSE (x.num \div x.den < y.num \div y.den)
         \/ (x.num \div x.den = y.num \div y.den
             /\ (x.num % x.den) * y.den < (y.num % y.den) * x.den)

\* r + s modulo c with its carry, for r, s in 0..c-1, within 32 bits
AddMod(r, s, c) == IF r >= c - s THEN <<1, r - (c - s)>> ELSE <<0, r + s>>

RECURSIVE MulDivQR(_, _, _)
\* <<q, r>> with a * b = q * c + r and 0 <= r < c, for a, b >= 0 < c, the
\* product a * b never formed
MulDivQR(a, b, c) ==
    IF b = 0 THEN <<0, 0>>
    ELSE LET half == MulDivQR(a, b \div 2, c)
             twice == AddMod(half[2], half[2], c)
             odd == IF b % 2 = 1 THEN AddMod(twice[2], a % c, c) ELSE <<0, twice[2]>>
         IN  <<2 * half[1] + twice[1] + odd[1] + (IF b % 2 = 1 THEN a \div c ELSE 0),
               odd[2]>>

\* the integer nearest to a * b / c (halves away from zero), c > 0
MulDivRound(a, b, c) ==
    LET qr == MulDivQR(Abs(a), Abs(b), c)
    IN  Sign(a) * Sign(b) * (qr[1] + (IF qr[2] >= c - qr[2] THEN 1 ELSE 0))

\* Grid of the cosmological quantities: distances are kept to 1/Fine Mpc,
\* the integrand and the logarithm to 1/Coarse
Fine == 10^3
Coarse == 10^4

\* x * y rounded to the grid 1/Fine, the operand of greater magnitude
\* scaled first
RMul(x, y) ==
    IF x.den = 0 \/ y.den = 0 \/ x.num = 0 \/ y.num = 0 THEN QMul(x, y)
    ELSE IF Abs(x.num) \div x.den >= Abs(y.num) \div y.den
    THEN Frac(MulDivRound(MulDivRound(x.num, Fine, x.den), y.num, y.den), Fine)
    ELSE Frac(MulDivRound(MulDivRound(y.num, Fine, y.den), x.num, x.den), Fine)

\* x.powi(k), exact
RECURSIVE powi(_, _)
powi(x, k) == IF k = 0 THEN Whole(1) ELSE QMul(powi(x, k - 1), x)

\* x.sqrt() and 1.0 / it, for x = v / Coarse: 1 / sqrt(x) to 1/Fine, +inf at
\* zero, NaN below
RecipSqrt(v) ==
    IF v < 0 THEN QNaN
    ELSE IF v = 0 THEN Frac(1, 0)
    ELSE LET q == ((10^9 \div v) * 10) + (((10^9 % v) * 10) \div v)
             r == SqrtSearch(q, 0, 46340)
         IN  Frac(IF q - r * r > r THEN r + 1 ELSE r, Fine)

\* x to the grid 1/Coarse, as an integer; x finite
ToCoarse(x) == (2 * x.num * Coarse + x.den) \div (2 * x.den)

\* cosmo.rs 113-116: the closure |z| 1.0 / (omega_m * (1.0 + z).powi(3)
\*   + omega_k * (1.0 + z).powi(2) + omega_lambda).sqrt()
integrand(self, z) ==
    IF z.den = 0 \/ self.omega_m.den = 0 \/ self.omega_k.den = 0
          \/ self.omega_lambda.den = 0
    THEN QNaN
    ELSE LET w == Coarse + ToCoarse(z)
             w2 == (w * w) \div Coarse
             w3 == (w2 * w) \div Coarse
         IN  RecipSqrt((ToCoarse(self.omega_m) * w3) \div Coarse
                        + (ToCoarse(self.omega_k) * w2) \div Coarse
                        + ToCoarse(self.omega_lambda))

\* The integrands of the model: closures of type Fn(f64) -> f64, each a
\* record of its body and what it captures
Apply(f, x) ==
    CASE f.body = "one" -> Whole(1)
      [] f.body = "linear" -> x
      [] f.body = "square" -> QMul(x, x)
      [] f.body = "reciprocal" -> QDiv(Whole(1), QAdd(Whole(1), x))
      [] f.body = "integrand" -> integrand(f.self, x)

RECURSIVE MapSum(_, _, _, _, _, _)
\* (i..n).map(|i| f(a + i as f64 * h)).sum::<f64>(), folded from the left
\* onto acc, and the arguments f was called with, in order; i..n is empty
\* when i >= n
MapSum(f, a, h, i, n, acc) ==
    IF i >= n THEN acc
    ELSE IF n - i = 1
    THEN LET x == QAdd(a, QMul(Whole(i), h))
         IN  [sum |-> QAdd(acc.sum, Apply(f, x)), at |-> Append(acc.at, x)]
    ELSE \* the terms of i..mid first, those of mid..n onto their sum
         LET first == MapSum(f, a, h, i, (i + n) \div 2, acc)
         IN  IF first.sum.den >= 0
             THEN MapSum(f, a, h, (i + n) \div 2, n, first)
             ELSE first

\* integrate with the sum taken over 1..=n
integrate_InclusiveRange(f, a, b, n) ==
    LET h == QDiv(QSub(b, a), Whole(n))
        s == MapSum(f, a, h, 1, n + 1, [sum |-> Whole(0), at |-> <<>>])
    IN  [returned |-> "f64", h |-> h,
         value |-> QMul(QDiv(h, Whole(2)),
                        QAdd(QAdd(Apply(f, a), Apply(f, b)), QMul(Whole(2), s.sum))),
         evaluated |-> s.at \o <<a, b>>]

\* integrate without the factor h / 2.0
integrate_StepDropped(f, a, b, n) ==
    LET h == QDiv(QSub(b, a), Whole(n))
        s == MapSum(f, a, h, 1, n, [sum |-> Whole(0), at |-> <<>>])
    IN  [returned |-> "f64", h |-> h,
         value |-> QAdd(QAdd(Apply(f, a), Apply(f, b)), QMul(Whole(2), s.sum)),
         evaluated |-> s.at \o <<a, b>>]

\* integrate with the step taken as |b - a| / n
integrate_AbsoluteStep(f, a, b, n) ==
    LET d == QSub(b, a)
        h == QDiv(IF d.num < 0 THEN QNeg(d) ELSE d, Whole(n))
        s == MapSum(f, a, h, 1, n, [sum |-> Whole(0), at |-> <<>>])
    IN  [returned |-> "f64", h |-> h,
         value |-> QMul(QDiv(h, Whole(2)),
                        QAdd(QAdd(Apply(f, a), Apply(f, b)), QMul(Whole(2), s.sum))),
         evaluated |-> s.at \o <<a, b>>]

integrate(f, a, b, n) ==
    LET h == QDiv(QSub(b, a), Whole(n))
        s == MapSum(f, a, h, 1, n, [sum |-> Whole(0), at |-> <<>>])
    IN  [returned |-> "f64", h |-> h,
         value |-> QMul(QDiv(h, Whole(2)),
                        QAdd(QAdd(Apply(f, a), Apply(f, b)), QMul(Whole(2), s.sum))),
         evaluated |-> s.at \o <<a, b>>]

----------------------------------------------------------------------------
(* cosmo.rs: Cosmo and Plank18 *)

\* const C: f64 = 299792.458
C == Frac(299792458, 1000)

\* Cosmo::new
Cosmo(h0, omega_m, omega_lambda) ==
    LET omega_k == QSub(QSub(Whole(1), omega_m), omega_lambda)
    IN  [h0 |-> h0, omega_m |-> omega_m, omega_lambda |-> omega_lambda,
         omega_k |-> omega_k]

\* luminosity_distance with the integral taken up to 1 + redshift
luminosity_distance_ShiftedBound(self, redshift) ==
    LET d_h == QDiv(C, self.h0)
        d_c == RMul(d_h, integrate([body |-> "integrand", self |-> self],
                                   Whole(0), QAdd(Whole(1), redshift), 1000).value)
        d_m == RMul(d_c, QDiv(Whole(1), QAdd(Whole(1), redshift)))
        d_lum == RMul(powi(QAdd(Whole(1), redshift), 2), d_m)
    IN  d_lum

\* luminosity_distance with a branch on the curvature: the transverse
\* distance is stretched by 1 + omega_k / 6 when omega_k is not zero
luminosity_distance_Curved(self, redshift) ==
    LET d_h == QDiv(C, self.h0)
        d_c == RMul(d_h, integrate([body |-> "integrand", self |-> self],
                                   Whole(0), redshift, 1000).value)
        flat == RMul(d_c, QDiv(Whole(1), QAdd(Whole(1), redshift)))
        d_m == IF self.omega_k = Whole(0) THEN flat
               ELSE RMul(flat, QAdd(Whole(1), QDiv(self.omega_k, Whole(6))))
        d_lum == RMul(powi(QAdd(Whole(1), redshift), 2), d_m)
    IN  d_lum

luminosity_distance(self, redshift) ==
    LET d_h == QDiv(C, self.h0)
        d_c == RMul(d_h, integrate([body |-> "integrand", self |-> self],
                                   Whole(0), redshift, 1000).value)
        d_m == RMul(d_c, QDiv(Whole(1), QAdd(Whole(1), redshift)))
        d_lum == RMul(powi(QAdd(Whole(1), redshift), 2), d_m)
    IN  d_lum

RECURSIVE LogBits(_, _, _)
\* the k bits after the point of log2(m / 2^14), for 2^14 <= m < 2^15
LogBits(m, k, acc) ==
    IF k = 0 THEN acc
    ELSE LET sq == (m * m) \div 2^14
         IN  IF sq >= 2^15 THEN LogBits(sq \div 2, k - 1, 2 * acc + 1)
             ELSE LogBits(sq, k - 1, 2 * acc)

RECURSIVE FloorLog2(_)
FloorLog2(n) == IF n < 2 THEN 0 ELSE 1 + FloorLog2(n \div 2)

\* 2^14 * log2(n), cut to a whole number, for n >= 1
Log2Q14(n) ==
    LET e == FloorLog2(n)
        m == IF e >= 14 THEN n \div 2^(e - 14) ELSE n * 2^(14 - e)
    IN  e * 2^14 + LogBits(m, 14, 0)

\* x.log10() to the grid 1/Coarse: -inf at zero, NaN below, x on the grid
\* 1/Fine
log10(x) ==
    IF x.den = 0 THEN (IF x.num > 0 THEN x ELSE QNaN)
    ELSE IF x.num < 0 THEN QNaN
    ELSE IF x.num = 0 THEN Frac(-1, 0)
    ELSE Frac(MulDivRound(Log2Q14(x.num) - Log2Q14(x.den), 30103, 163840), Coarse)

\* dm with the ratio under the logarithm upside down
dm_Inverted(self, z) ==
    LET lumdist == luminosity_distance(self, z)
    IN  QMul(Whole(5), log10(QDiv(Whole(1), QMul(lumdist, Frac(10^6, 10)))))

dm(self, z) ==
    LET lumdist == luminosity_distance(self, z)
    IN  \* 5.0 * ((lumdist * 1.0e6) / 10.0).log10(), the two scalings of
        \* lumdist taken as one
        QMul(Whole(5), log10(QMul(lumdist, Frac(10^6, 10))))

\* angular_diameter_distance dividing from z = 0.01 on
angular_diameter_distance_Inclusive(self, z) ==
    LET lumdist == luminosity_distance(self, z)
    IN  IF QLess(Frac(1, 100), z) \/ z = Frac(1, 100)
        THEN RMul(lumdist, QDiv(Whole(1), powi(QAdd(Whole(1), z), 2)))
        ELSE lumdist

angular_diameter_distance(self, z) ==
    LET lumdist == luminosity_distance(self, z)
    IN  IF QLess(Frac(1, 100), z)
        THEN RMul(lumdist, QDiv(Whole(1), powi(QAdd(Whole(1), z), 2)))
        ELSE lumdist

\* Plank18::new
Plank18 ==
    LET h0 == Frac(6766, 100)
        omega_m == Frac(3103, 10^4)
        omega_lambda == Frac(6897, 10^4)
        omega_k == QSub(QSub(Whole(1), omega_m), omega_lambda)
    IN  [base |-> [h0 |-> h0, omega_m |-> omega_m, omega_lambda |-> omega_lambda,
                   omega_k |-> omega_k]]

Plank18_luminosity_distance(self, redshift) == luminosity_distance(self.base, redshift)
\* Plank18::dm answering with the luminosity distance
Plank18_dm_AsDistance(self, z) == luminosity_distance(self.base, z)

Plank18_dm(self, z) == dm(self.base, z)
Plank18_angular_diameter_distance(self, z) == angular_diameter_distance(self.base, z)

----------------------------------------------------------------------------
(* target.rs: Target, and observer.rs: Observer::targets_airmasses.        *)
(* Right ascensions and declinations are in micro-degrees; an altitude and *)
(* an airmass are fractions on the grid of thousandths, or an infinity or  *)
(* NaN.  Altitudes are good to a few hundredths of a degree and airmasses  *)
(* to a few thousandths of their size.                                     *)

Target(ra, dec, name) == [name |-> name, ra |-> ra, dec |-> dec]

\* x, a finite value on the grid of thousandths, as a count of thousandths
Milli(x) == x.num * (1000 \div x.den)

\* ((lst - ra) % 360.0) * DEGRA: the hour angle, kept in micro-degrees
HourAngle(lst_deg, ra) == Rem360(lst_deg - ra)

\* (dec.sin() * lat.sin() + dec.cos() * lat.cos() * ha.cos()).asin() / DEGRA
AltitudeOf(lat, dec, ha) ==
    LET x == ((SinDeg(dec) * SinDeg(lat)) \div TrigOne)
             + ((((CosDeg(dec) * CosDeg(lat)) \div TrigOne) * CosDeg(ha)) \div TrigOne)
    IN  IF x > TrigOne \/ x < -TrigOne THEN QNaN ELSE Frac(AsinDeg(x), 1000)

\* target.rs 107-116
altitude(self, observer, time) ==
    AltitudeOf(observer.lat, self.dec,
               HourAngle(local_sidereal_time(observer, time), self.ra))

RECURSIVE ExpSearch(_, _, _)
\* the least p of lo..hi with 2^14 * log2(p) at least l
ExpSearch(l, lo, hi) ==
    IF lo >= hi THEN lo
    ELSE LET mid == (lo + hi) \div 2
         IN  IF Log2Q14(mid) >= l THEN ExpSearch(l, lo, mid)
             ELSE ExpSearch(l, mid + 1, hi)

\* x.powf(y) for x on the grid of thousandths and y > 0 a fraction: NaN for
\* a negative x (y is not a whole number), through 2^(y * log2(x)) otherwise
powf(x, y) ==
    IF x.den = 0 THEN (IF x.num = 0 THEN QNaN ELSE Frac(1, 0))
    ELSE IF x.num < 0 THEN QNaN
    ELSE IF x.num = 0 THEN Whole(0)
    ELSE LET l == Log2Q14(Milli(x)) - Log2Q14(1000)
             e == Log2Q14(1000) + TruncDiv(y.num * l, y.den)
         IN  IF e < 0 THEN Whole(0) ELSE Frac(ExpSearch(e, 1, 2 * 10^6), 1000)

\* alt + 244.0 / (165.0 + 47.0 * alt.powf(1.1))
SinArg(altdeg) ==
    LET p == powf(altdeg, Frac(11, 10))
    IN  IF altdeg.den = 0 THEN (IF altdeg.num = 0 THEN QNaN ELSE altdeg)
        ELSE IF p.den = 0 THEN QNaN
        ELSE Frac(Milli(altdeg) + RDiv(244 * 10^6, 165000 + 47 * Milli(p)), 1000)

\* 1.0 / (sinarg * DEGRA).sin(): the sine of an infinity is NaN
RecipSin(sinarg) ==
    IF sinarg.den = 0 THEN QNaN
    ELSE LET sine == SinDeg(Milli(sinarg) * 1000)
         IN  IF sine = 0 THEN Frac(1, 0)
             ELSE Frac(Sign(sine) * RDiv(TrigOne * 1000, Abs(sine)), 1000)

\* airmass without its test of the horizon
airmass_NoHorizon(self, observer, time) ==
    RecipSin(SinArg(altitude(self, observer, time)))

\* target.rs 147-154: alt <= 0.0 is false of NaN
airmass(self, observer, time) ==
    LET altdeg == altitude(self, observer, time)
    IN  IF altdeg.den # 0 /\ altdeg.num <= 0 THEN Frac(-1, 0)
        ELSE RecipSin(SinArg(altdeg))

\* 0.0347 * (90.0 - alt).tan().powi(2): the tangent is taken of 90 - alt as
\* it stands, a number of degrees read as radians.  The angle is brought
\* into one turn of the tangent (pi = 3.1415927) and then to micro-degrees.
\* Next to a pole of the tangent the value depends on digits of alt that the
\* grid does not carry; beyond a tangent of 1000 it is carried as +inf, and
\* the entry is NaN either way.
TanCorrection(altdeg) ==
    IF altdeg.den = 0 THEN QNaN
    ELSE LET r == ((90000 - Milli(altdeg)) * 10^4) % 31415927
             d == MulDivRound(r, 5729578, 10^6)
             t == IF CosDeg(d) = 0 THEN 10^6 + 1
                  ELSE RDiv(Abs(SinDeg(d)) * 1000, Abs(CosDeg(d)))
         IN  IF t > 10^6 THEN Frac(1, 0)
             ELSE Frac(MulDivRound(t, 347 * t, 10^7), 1000)

\* observer.rs 163-169: the body of the two loops, for lsts[j], ra_array[i]
\* and dec_array[i]
AirmassEntry(lat, lst_deg, ra, dec) ==
    LET ha == HourAngle(lst_deg, ra)
        alt1 == AltitudeOf(lat, dec, ha)
        alt2 == QSub(alt1, TanCorrection(alt1))
    IN  RecipSin(SinArg(alt2))

\* observer.rs 153-175: a row for each target, a column for each time
targets_airmasses(self, targets, times) ==
    LET lat == self.lat
        lsts == [j \in 1..Len(times) |-> local_sidereal_time(self, times[j])]
        ra_array == [i \in 1..Len(targets) |-> targets[i].ra]
        dec_array == [i \in 1..Len(targets) |-> targets[i].dec]
    IN  [i \in 1..Len(targets) |->
            [j \in 1..Len(times) |-> AirmassEntry(lat, lsts[j], ra_array[i], dec_array[i])]]

----------------------------------------------------------------------------
(* spatial.rs: deg2hms and deg2dms, and target.rs: Target::radec2hmsdms.   *)
(* The angle is a whole number of micro-degrees.  A call ends in a panic   *)
(* with its message or returns its text: [panic, text].  The fields are    *)
(* the exact sexagesimal ones; on a whole minute the f64 remainder can     *)
(* fall a rounding short of it, and the code then prints the minute before *)
(* with 60 seconds.                                                        *)

RECURSIVE Digits(_, _)
\* n >= 0 in decimal, filled with zeros on the left to w digits at least
Digits(n, w) ==
    IF n < 10 /\ w <= 1 THEN ToString(n)
    ELSE Digits(n \div 10, w - 1) \o ToString(n % 10)

RECURSIVE Decimals(_, _)
\* the w-digit decimals f > 0 without their trailing zeros
Decimals(f, w) == IF f % 10 = 0 THEN Decimals(f \div 10, w - 1) ELSE Digits(f, w)

\* format!("{}", deg): the shortest decimal that reads back as deg
DisplayDeg(deg) ==
    (IF deg < 0 THEN "-" ELSE "") \o Digits(Abs(deg) \div Deg, 1)
        \o (IF Abs(deg) % Deg = 0 THEN "" ELSE "." \o Decimals(Abs(deg) % Deg, 6))

Panic(message) == [panic |-> TRUE, text |-> message]
Return(value) == [panic |-> FALSE, text |-> value]

\* deg2hms with zero let through
deg2hms_ZeroAllowed(deg) ==
    IF deg < 0 \/ deg > 360 * Deg THEN Panic("Invalid RA input: " \o DisplayDeg(deg))
    ELSE Return("00:00:00.0000")

\* spatial.rs 74-86: 15 degrees to the hour, 250000 micro-degrees to the
\* minute, 2.4 ten-thousandths of a second to the micro-degree
deg2hms(deg) ==
    IF deg <= 0 \/ deg > 360 * Deg THEN Panic("Invalid RA input: " \o DisplayDeg(deg))
    ELSE LET hours == deg \div (15 * Deg)
             minutes == (deg % (15 * Deg)) \div 250000
             seconds == RDiv((deg % 250000) * 12, 5)
         IN  Return(Digits(hours, 2) \o ":" \o Digits(minutes, 2) \o ":"
                    \o Digits(seconds \div 10^4, 2) \o "." \o Digits(seconds % 10^4, 4))

\* spatial.rs 108-119: degrees carries the sign of deg, as -0 too; 3.6
\* thousandths of a second to the micro-degree
deg2dms(deg) ==
    IF deg <= -90 * Deg \/ deg >= 90 * Deg THEN Panic("Invalid DEC input: " \o DisplayDeg(deg))
    ELSE LET degrees == Abs(deg) \div Deg
             m == (Abs(deg) % Deg) * 60
             minutes == m \div Deg
             seconds == RDiv((m % Deg) * 3, 50)
         IN  Return((IF deg < 0 THEN "-" \o Digits(degrees, 1) ELSE Digits(degrees, 2))
                    \o ":" \o Digits(minutes, 2) \o ":"
                    \o Digits(seconds \div 1000, 2) \o "." \o Digits(seconds % 1000, 3))

\* target.rs 261-263: (deg2hms(self.ra), deg2dms(self.dec)), the first
\* panic ending the call
radec2hmsdms(self) ==
    LET hms == deg2hms(self.ra)
        dms == deg2dms(self.dec)
    IN  IF hms.panic THEN hms
        ELSE IF dms.panic THEN dms
        ELSE Return(<<hms.text, dms.text>>)

----------------------------------------------------------------------------
(* time.rs: Time::from_isot_str.  The text is a string; the grammar is the *)
(* one of RFC 3339 without fractions of a second and leap seconds:         *)
(* YYYY-MM-DDTHH:MM:SS followed by Z or by +HH:MM or -HH:MM.               *)

Char(text, i) == SubSeq(text, i, i)

IsDigit(c) == \E d \in 0..9 : ToString(d) = c
DigitOf(c) == CHOOSE d \in 0..9 : ToString(d) = c

RECURSIVE Number(_, _, _)
\* the number written by the digits first..last of text
Number(text, first, last) ==
    IF last < first THEN 0
    ELSE 10 * Number(text, first, last - 1) + DigitOf(Char(text, last))

\* the characters of text at the places ps are all digits
AllDigits(text, ps) == \A i \in ps : IsDigit(Char(text, i))

\* the days of month m of year y in the Gregorian calendar
MonthLength(y, m) ==
    IF m = 2 THEN (IF (y % 4 = 0 /\ y % 100 # 0) \/ y % 400 = 0 THEN 29 ELSE 28)
    ELSE IF m \in {4, 6, 9, 11} THEN 30 ELSE 31

\* DateTime::parse_from_rfc3339(isot): Ok of a DateTime<FixedOffset>, the
\* civil fields as written (its local time) and the offset east of UTC in
\* seconds, or Err
parse_from_rfc3339(isot) ==
    LET n == Len(isot)
        shape == /\ n \in {20, 25}
                 /\ AllDigits(isot, {1, 2, 3, 4, 6, 7, 9, 10, 12, 13, 15, 16, 18, 19})
                 /\ Char(isot, 5) = "-" /\ Char(isot, 8) = "-" /\ Char(isot, 11) = "T"
                 /\ Char(isot, 14) = ":" /\ Char(isot, 17) = ":"
                 /\ IF n = 20 THEN Char(isot, 20) = "Z"
                    ELSE /\ Char(isot, 20) \in {"+", "-"}
                         /\ AllDigits(isot, {21, 22, 24, 25})
                         /\ Char(isot, 23) = ":"
        year == Number(isot, 1, 4)
        month == Number(isot, 6, 7)
        day == Number(isot, 9, 10)
        hour == Number(isot, 12, 13)
        minute == Number(isot, 15, 16)
        second == Number(isot, 18, 19)
        east == IF n = 20 THEN 0
                ELSE (IF Char(isot, 20) = "-" THEN -1 ELSE 1)
                     * (Number(isot, 21, 22) * 3600 + Number(isot, 24, 25) * 60)
    IN  IF /\ shape
           /\ month \in 1..12 /\ day \in 1..MonthLength(year, month)
           /\ hour <= 23 /\ minute <= 59 /\ second <= 59
           /\ (n = 25 => Number(isot, 21, 22) <= 23 /\ Number(isot, 24, 25) <= 59)
        THEN [ok |-> TRUE, local |-> MkTime(year, month, day, hour, minute, second),
              offset |-> east]
        ELSE [ok |-> FALSE]

\* time.rs 180-190: unwrap panics on Err; year(), month(), ... of a
\* DateTime<FixedOffset> are the fields of its local time
from_isot_str(isot) ==
    LET utc == parse_from_rfc3339(isot)
    IN  IF ~utc.ok THEN Panic("called Result::unwrap() on an Err value")
        ELSE MkTime(utc.local.year, utc.local.month, utc.local.day,
                    utc.local.hour, utc.local.minute, utc.local.second)

----------------------------------------------------------------------------
(* The civil calendar the claims speak of (not part of the program) *)

IsLeap(y) == (y % 4 = 0 /\ y % 100 # 0) \/ y % 400 = 0

DaysInMonth(y, m) ==
    IF m = 2 THEN (IF IsLeap(y) THEN 29 ELSE 28)
    ELSE IF m \in {4, 6, 9, 11} THEN 30 ELSE 31

ValidCivil(t) ==
    /\ t.month \in 1..12
    /\ t.day \in 1..DaysInMonth(t.year, t.month)
    /\ t.hour \in 0..23 /\ t.minute \in 0..59 /\ t.second \in 0..59

\* t1 is earlier than t2, field by field
Earlier(t1, t2) ==
    LET a == <<t1.year, t1.month, t1.day, t1.hour, t1.minute, t1.second>>
        b == <<t2.year, t2.month, t2.day, t2.hour, t2.minute, t2.second>>
    IN  \E i \in 1..6 : a[i] < b[i] /\ \A k \in 1..(i - 1) : a[k] = b[k]

\* midnight of the day after t's
NextDay(t) ==
    IF t.day < DaysInMonth(t.year, t.month)
    THEN MkTime(t.year, t.month, t.day + 1, 0, 0, 0)
    ELSE IF t.month < 12 THEN MkTime(t.year, t.month + 1, 1, 0, 0, 0)
    ELSE MkTime(t.year + 1, 1, 1, 0, 0, 0)

----------------------------------------------------------------------------
(* Inputs *)

YearSpan == 1     \* years on either side of each year of interest
DayEdge == 2      \* days taken at the start of each month
MaxCalls == 3     \* longest chain of calls

Years == UNION {(y - YearSpan)..(y + YearSpan) : y \in {1900, 2000, 2100}} \cup {2024}

DaysOf(y, m) == {d \in 1..DaysInMonth(y, m) : d <= DayEdge \/ d >= 27}

Hours == {0, 5, 14, 23}
Minutes == {0, 15, 59}
Seconds == {0, 1, 34, 59}

\* The civil times of the model: real calendar dates only
CivilDates == {<<y, m, d>> \in Years \X (1..12) \X (1..31) : d \in DaysOf(y, m)}

CivilTimes ==
    {new(c[1], c[2], c[3], h, mi, s) :
        c \in CivilDates, h \in Hours, mi \in Minutes, s \in Seconds}

----------------------------------------------------------------------------
(* The calendar kernel exercised from a civil time *)

NoObs == [lat |-> 0, lon |-> 0, elevation |-> 0]
NoSun == [called |-> FALSE]
NoQuad == [called |-> FALSE]
NoDist == [called |-> FALSE]
NoAir == [called |-> FALSE]
NoFmt == [called |-> FALSE]
NoShared == [lent |-> FALSE]

\* Nothing of the sky has been touched
RestSky ==
    /\ obs = NoObs
    /\ alt = {}
    /\ gst = 0
    /\ lst = 0
    /\ sun = NoSun

\* Nothing of the sky or of the quadrature engine has been touched
\* Nothing else has been touched
OtherIdle ==
    /\ args = <<>>
    /\ M = NoMjd
    /\ air = NoAir
    /\ fmt = NoFmt
    /\ str = <<>>
    /\ shared = NoShared
    /\ threads = <<>>

RestIdle == RestSky /\ quad = NoQuad /\ dist = NoDist /\ OtherIdle

InitTime ==
    /\ T0 \in CivilTimes
    /\ T = T0
    /\ calls = <<"new">>
    /\ J0 = NoJd
    /\ J = NoJd
    /\ RestIdle

\* jd = T.to_jd()
ToJd ==
    /\ Len(calls) < MaxCalls
    /\ calls[Len(calls)] \in {"new", "from_jd"}
    /\ J' = to_jd(T)
    /\ calls' = Append(calls, "to_jd")
    /\ UNCHANGED <<T0, T, J0, skyVars, quad, dist, otherVars>>

\* T = Time::from_jd(jd)
FromJd ==
    /\ Len(calls) < MaxCalls
    /\ calls[Len(calls)] \in {"jd", "to_jd"}
    /\ T' = from_jd(J)
    /\ calls' = Append(calls, "from_jd")
    /\ UNCHANGED <<T0, J0, J, skyVars, quad, dist, otherVars>>

NextTime == ToJd \/ FromJd

SpecTime == InitTime /\ [][NextTime]_vars

----------------------------------------------------------------------------
(* The calendar kernel exercised from a Julian Date *)

JdDays == {2415079, 2451544, 2460564, 2488128}
JdSecs == {0, 675, 4921, 8100, 43199, 43200, 51300, 86399}
JdSubs == {0, 1, 7185089, 2^23, 2^24 - 1}

\* The f64 values of Julian Dates written with a fraction: days after
\* the Gregorian cutover, in years 1900, 1999, 2024 and 2100
JulianDates == {F64Jd(d, s, u) : d \in JdDays, s \in JdSecs, u \in JdSubs}

InitJd ==
    /\ J0 \in JulianDates
    /\ J = J0
    /\ calls = <<"jd">>
    /\ T0 = NoTime
    /\ T = NoTime
    /\ RestIdle

SpecJd == InitJd /\ [][NextTime]_vars

----------------------------------------------------------------------------
(* The calendar kernel exercised through Modified Julian Dates *)

\* Nothing but the time registers has been touched
CoreIdle == RestSky /\ quad = NoQuad /\ dist = NoDist

MjdDays == {58849, 60546}
MjdSecs == {0, 8100, 23733, 43199}
MjdSteps == 66      \* f64 steps taken after each whole second

\* The k-th f64 at or after day d and s seconds: a multiple of 2^-37 day,
\* which is 675 64ths of a sub-unit
OnMjdGrid(d, s, k) ==
    LET past == ((s % TickSub) * ((64 * SubPerSec) % TickSub)) % TickSub
        first == (TickSub - past) % TickSub
        u == first + TickSub * k
    IN  MkMjd(d, s, u \div 64, u % 64)

\* Modified Julian Dates as a caller writes them: f64 values of 2020 and 2024
ModifiedDates ==
    {OnMjdGrid(d, s, k) : d \in MjdDays, s \in MjdSecs, k \in 0..MjdSteps} \cup {NanMjd}

MjdTimes ==
    {new(2024, 8, 24, 6, 35, 34), new(2020, 1, 1, 0, 0, 0)}
        \cup {t \in CivilTimes : t.year \in {1900, 2024} /\ t.month \in {2, 3} /\ t.minute = 15}

InitMjd ==
    /\ \/ calls = <<"new">> /\ T0 \in MjdTimes /\ M = NoMjd
       \/ calls = <<"mjd">> /\ T0 = NoTime /\ M \in ModifiedDates
    /\ T = T0
    /\ J0 = NoJd
    /\ J = NoJd
    /\ CoreIdle
    /\ args = <<>> /\ air = NoAir /\ fmt = NoFmt /\ str = <<>>
    /\ shared = NoShared /\ threads = <<>>

\* mjd = T.to_mjd()
ToMjd ==
    /\ calls = <<"new">>
    /\ M' = to_mjd(T)
    /\ calls' = Append(calls, "to_mjd")
    /\ UNCHANGED <<timeVars, skyVars, quad, dist, args, air, fmt, str, shared, threads>>

\* T = Time::from_mjd(mjd)
FromMjd ==
    /\ calls[Len(calls)] \in {"mjd", "to_mjd"}
    /\ T' = from_mjd(M)
    /\ calls' = Append(calls, "from_mjd")
    /\ UNCHANGED <<T0, J0, J, M, skyVars, quad, dist, args, air, fmt, str, shared, threads>>

NextMjd == ToMjd \/ FromMjd

SpecMjd == InitMjd /\ [][NextMjd]_vars

----------------------------------------------------------------------------
(* Time::new called with any field values, and to_jd on what it returns *)

LooseYears == {1900, 2024}
LooseMonths == {0, 1, 12, 13, 14, 99}
LooseDays == {0, 1, 31, 32, 99}
LooseHours == {0, 23, 25, 99}
LooseMinutes == {0, 59, 61}
LooseSeconds == {0, 59, 61, 100000}

InitNew ==
    /\ calls = <<>>
    /\ T0 = NoTime
    /\ T = NoTime
    /\ J0 = NoJd
    /\ J = NoJd
    /\ RestIdle

\* T = Time::new(year, month, day, hour, minute, second)
New ==
    /\ calls = <<>>
    /\ \E year \in LooseYears, month \in LooseMonths, day \in LooseDays,
          hour \in LooseHours, minute \in LooseMinutes, second \in LooseSeconds :
            /\ args' = <<year, month, day, hour, minute, second>>
            /\ T' = new(year, month, day, hour, minute, second)
    /\ T0' = T'
    /\ calls' = <<"new">>
    /\ UNCHANGED <<J0, J, skyVars, quad, dist, M, air, fmt, str, shared, threads>>

\* jd = T.to_jd(), the result of the call before it kept in J0
ToJdAgain ==
    /\ calls # <<>>
    /\ Len(calls) < MaxCalls
    /\ J0' = J
    /\ J' = to_jd(T)
    /\ calls' = Append(calls, "to_jd")
    /\ UNCHANGED <<T0, T, skyVars, quad, dist, otherVars>>

NextNew == New \/ ToJdAgain

SpecNew == InitNew /\ [][NextNew]_vars

----------------------------------------------------------------------------
(* The calendar kernel walked day by day: Time::from_jd(jd), then          *)
(* Time::from_jd(jd + 1.0), and so on                                      *)

WalkDays == 12     \* days walked from each starting day

\* The walks start a few days before 1582-10-15, before the first of March
\* of 1900, 2000, 2024 and 2100, and before 2025-01-01
WalkStarts == {2299155, 2415073, 2451598, 2460364, 2460670, 2488122}
WalkSecs == {0, 8100, 43199, 43200, 86399}
WalkSubs == {0, 7185089, 2^24 - 1}

InitDays ==
    /\ J0 \in {F64Jd(d, s, u) : d \in WalkStarts, s \in WalkSecs, u \in WalkSubs}
    /\ J = J0
    /\ calls = <<"jd">>
    /\ T0 = NoTime
    /\ T = NoTime
    /\ RestIdle

\* T = Time::from_jd(jd + 1.0), the Time of the day before kept in T0;
\* jd + 1.0 is exact
NextDayFromJd ==
    /\ calls = <<"jd", "from_jd">>
    /\ J.day - J0.day < WalkDays
    /\ J' = MkJd(J.day + 1, J.sec, J.sub)
    /\ T0' = T
    /\ T' = from_jd(J')
    /\ UNCHANGED <<calls, J0, skyVars, quad, dist, otherVars>>

NextDays == FromJd \/ NextDayFromJd

SpecDays == InitDays /\ [][NextDays]_vars

----------------------------------------------------------------------------
(* Properties of the calendar kernel *)

\* the second after t, for t a valid civil time
NextSecond(t) ==
    IF t.second < 59 THEN [t EXCEPT !.second = t.second + 1]
    ELSE IF t.minute < 59 THEN [t EXCEPT !.minute = t.minute + 1, !.second = 0]
    ELSE IF t.hour < 23 THEN [t EXCEPT !.hour = t.hour + 1, !.minute = 0, !.second = 0]
    ELSE NextDay(t)

\* Civil times to compare a Julian Date with: midnights around the end of
\* February of the century years
ProbeTimes ==
    {new(y, m, d, 0, 0, 0) : y \in {1900, 2000, 2100}, m \in {2, 3}, d \in {1, 28}}

\* |b - a| < tol sub-units, for tol below a second
JdWithin(b, a, tol) ==
    LET ds == (b.day - a.day) * 86400 + (b.sec - a.sec)
    IN  /\ Abs(ds) <= 1
        /\ Abs(ds * SubPerSec + (b.sub - a.sub)) < tol

\* 1e-6 day in sub-units: 0.0864 s
Tolerance == (54 * SubPerSec) \div 625

\* C1: for every valid civil time t, from_jd(to_jd(t)) has the same year,
\* month, day, hour, minute and second as t.
RoundTripCivil ==
    (calls = <<"new", "to_jd", "from_jd">> /\ ValidCivil(T0)) => T = T0

\* C2: to_jd is strictly increasing: of two valid civil times, the earlier
\* has the smaller Julian Date.
ToJdIncreasing ==
    (calls = <<"new", "to_jd">>) =>
        \A v \in ProbeTimes \cup {NextSecond(T0)} :
            /\ ValidCivil(v)
            /\ Earlier(T0, v) => JdLess(J, to_jd(v))
            /\ Earlier(v, T0) => JdLess(to_jd(v), J)

\* C2 at work: the Julian Date of the last second of a year has been taken
\* and is below that of the first second of the next year
ToJdIncreasingWitness ==
    /\ calls = <<"new", "to_jd">>
    /\ T0 = new(2000, 12, 31, 23, 59, 59)
    /\ NextSecond(T0) = new(2001, 1, 1, 0, 0, 0)
    /\ JdLess(J, to_jd(NextSecond(T0)))

\* C3: for every Julian Date j after the Gregorian cutover,
\* |to_jd(from_jd(j)) - j| < 1e-6 day.
RoundTripJd ==
    (calls = <<"jd", "from_jd", "to_jd">>) =>
        JdWithin(J, J0, Tolerance)

\* C20: for every Julian Date j in the supported range, from_jd(j) cuts the
\* time of day down to whole seconds and never rounds it up: hour * 3600 +
\* minute * 60 + second is floor(F * 86400), F the fractional part of
\* j + 0.5.
TruncatesToSecond ==
    (calls = <<"jd", "from_jd">>) =>
        T.hour * 3600 + T.minute * 60 + T.second = (J0.sec + 43200) % 86400

\* C4: to_jd of midnight of the day after a valid Gregorian date d is to_jd
\* of midnight of d plus exactly 1.
DayCount ==
    (calls = <<"new", "to_jd">> /\ ValidCivil(T0)
        /\ T0.hour = 0 /\ T0.minute = 0 /\ T0.second = 0) =>
        to_jd(NextDay(T0)) = MkJd(J.day + 1, J.sec, J.sub)

\* The exact sum m + 2400000.5, for m a multiple of 2^-31 day
PlusOffset(m) ==
    MkJd(m.day + 2400000 + ((m.sec + 43200) \div 86400), (m.sec + 43200) % 86400, m.sub)

\* How far the Julian Date j is from m + 2400000.5, in 64ths of a sub-unit,
\* for the two no more than a second apart
OffBy(j, m) ==
    LET e == PlusOffset(m)
        ds == (j.day - e.day) * 86400 + (j.sec - e.sec)
    IN  Abs(64 * (ds * SubPerSec + (j.sub - e.sub)) - m.fine)

\* C21: t.to_mjd() is t.to_jd() - 2400000.5 for every Time t, and
\* Time::from_mjd(mjd) is Time::from_jd(mjd + 2400000.5) for every mjd, the
\* sum being the f64 one: the Julian Date nearest to it.
MjdIsJdLessOffset ==
    /\ (Len(calls) >= 2 /\ calls[2] = "to_mjd") =>
            ~M.nan /\ M.fine = 0 /\ PlusOffset(M) = to_jd(T0)
    /\ (calls[Len(calls)] = "from_mjd") =>
            \E j \in {MjdPlusOffset(M)} :
                /\ T = from_jd(j)
                /\ j.nan = M.nan
                /\ ~M.nan => 2 * OffBy(j, M) <= 64 * TickSub

\* C21 at work: the Modified Julian Date of 2024-08-24 06:35:34 has been
\* taken, it is 60546.274699074216, and the Time has been made from it again
MjdIsJdLessOffsetWitness ==
    /\ calls = <<"new", "to_mjd", "from_mjd">>
    /\ T0 = new(2024, 8, 24, 6, 35, 34)
    /\ M.day = 60546 /\ M.sec = 23734 /\ M.sub = 206
    /\ T = from_jd(to_jd(T0))

\* C22: Time::new never fails and checks nothing: whatever the field
\* values, out-of-range month, day, hour, minute or second included, the Time
\* holds exactly those values, and to_jd on it returns a value without an
\* error, the same value on every call.
NewIsPermissive ==
    /\ calls # <<>> =>
            /\ <<T.year, T.month, T.day, T.hour, T.minute, T.second>> = args
            /\ T0 = T
    /\ (calls # <<>> /\ calls[Len(calls)] = "to_jd") =>
            /\ ~J.nan
            /\ J.day \in 2^21..(2^22 - 1)
            /\ J.sec \in 0..86399
            /\ J.sub \in 0..(SubPerSec - 1)
    /\ calls = <<"new", "to_jd", "to_jd">> => J = J0

\* C22 at work: Time::new(2024, 13, 32, 25, 61, 61) holds those six values
\* and to_jd has twice returned 2460708.5847337963
NewIsPermissiveWitness ==
    /\ calls = <<"new", "to_jd", "to_jd">>
    /\ args = <<2024, 13, 32, 25, 61, 61>>
    /\ T.month = 13 /\ T.day = 32 /\ T.hour = 25 /\ T.minute = 61 /\ T.second = 61
    /\ ~ValidCivil(T)
    /\ J = MkJd(2460708, 50521, 14)
    /\ J0 = J

\* t falls on the given calendar day
OnDay(t, y, m, d) == t.year = y /\ t.month = m /\ t.day = d

\* C24: as the Julian Date advances by whole days across the calendar reform
\* of 1582, from_jd never returns a date from 1582-10-05 to 1582-10-14, and
\* the day after 1582-10-04 is 1582-10-15.
ReformSkipsTenDays ==
    (calls = <<"jd", "from_jd">>) =>
        /\ ~(T.year = 1582 /\ T.month = 10 /\ T.day \in 5..14)
        /\ OnDay(T0, 1582, 10, 4) => OnDay(T, 1582, 10, 15)

\* j is in the range the kernel is meant for: an instant from 1582-10-15
\* 00:00 (JD 2299160.5) on
Supported(j) == ~j.nan /\ JdLeq(MkJd(2299160, 43200, 0), j)

\* C25: for every Julian Date j in the supported range the fields of
\* from_jd(j) are in range: month in 1..12, day from 1 to the length of that
\* month, hour in 0..23, minute in 0..59, second in 0..59.
FieldsInRange ==
    (calls = <<"jd", "from_jd">> /\ Supported(J)) =>
        /\ T.month \in 1..12
        /\ T.day \in 1..31
        /\ T.day <= DaysInMonth(T.year, T.month)
        /\ T.hour \in 0..23
        /\ T.minute \in 0..59
        /\ T.second \in 0..59

\* C25 at work: the walk has come from 2024-02-28 to the last minute of
\* 2024-02-29, the 29th day of a month of 29
FieldsInRangeWitness ==
    /\ calls = <<"jd", "from_jd">>
    /\ Supported(J)
    /\ OnDay(T0, 2024, 2, 28)
    /\ OnDay(T, 2024, 2, 29)
    /\ T.day = DaysInMonth(T.year, T.month)
    /\ T.hour = 23 /\ T.minute = 59

----------------------------------------------------------------------------
(* The sky: sidereal time and the solar event solver *)

SkyDates == {<<1999, 12, 31>>, <<2000, 1, 1>>, <<2024, 6, 21>>, <<2024, 9, 10>>, <<2024, 12, 21>>}
SkyClock == {<<0, 0, 0>>, <<3, 0, 0>>, <<11, 0, 0>>, <<12, 2, 27>>, <<17, 21, 14>>, <<21, 30, 0>>}

SkyTimes == {new(d[1], d[2], d[3], c[1], c[2], c[3]) : d \in SkyDates, c \in SkyClock}

\* Palomar's place, the Greenwich meridian and a far eastern one; mid and
\* polar latitudes; sea level and a mountain top
Observers ==
    {Observer(lat, lon, elevation) :
        lat \in {33363368, 80000000},
        lon \in {-116836135, 0, 116000000, 180000000},
        elevation \in {0, 1870}}

\* None, and the civil, nautical and astronomical twilights
SolarAlts == {{}, {-6 * Deg}, {-12 * Deg}, {-18 * Deg}}

InitSky ==
    /\ T0 \in SkyTimes
    /\ T = T0
    /\ obs \in Observers
    /\ alt \in SolarAlts
    /\ calls = <<"new">>
    /\ J0 = NoJd
    /\ J = NoJd
    /\ gst = 0
    /\ lst = 0
    /\ sun = NoSun
    /\ quad = NoQuad
    /\ dist = NoDist
    /\ OtherIdle

\* gst = T.to_gst()
ToGst ==
    /\ calls = <<"new">>
    /\ gst' = to_gst(T)
    /\ calls' = Append(calls, "to_gst")
    /\ UNCHANGED <<timeVars, obs, alt, lst, sun, quad, dist, otherVars>>

\* lst = obs.local_sidereal_time(&T)
LocalSiderealTime ==
    /\ calls = <<"new">>
    /\ lst' = local_sidereal_time(obs, T)
    /\ calls' = Append(calls, "local_sidereal_time")
    /\ UNCHANGED <<timeVars, obs, alt, gst, sun, quad, dist, otherVars>>

\* (sunrise, sunset) = obs.sun_set_time(Some(&T), alt)
SunSetTime ==
    /\ calls = <<"new">>
    /\ sun' = sun_set_time(obs, T, alt)
    /\ calls' = Append(calls, "sun_set_time")
    /\ UNCHANGED <<timeVars, obs, alt, gst, lst, quad, dist, otherVars>>

\* (sunrise, sunset) = obs.twilight_astronomical(Some(&T)): no altitude is
\* given
TwilightAstronomical ==
    /\ calls = <<"new">>
    /\ alt = {}
    /\ sun' = twilight_astronomical(obs, T)
    /\ calls' = Append(calls, "twilight_astronomical")
    /\ UNCHANGED <<timeVars, obs, alt, gst, lst, quad, dist, otherVars>>

\* (sunrise, sunset) = obs.twilight_nautical(Some(&T))
TwilightNautical ==
    /\ calls = <<"new">>
    /\ alt = {}
    /\ sun' = twilight_nautical(obs, T)
    /\ calls' = Append(calls, "twilight_nautical")
    /\ UNCHANGED <<timeVars, obs, alt, gst, lst, quad, dist, otherVars>>

\* (sunrise, sunset) = obs.twilight_civil(Some(&T))
TwilightCivil ==
    /\ calls = <<"new">>
    /\ alt = {}
    /\ sun' = twilight_civil(obs, T)
    /\ calls' = Append(calls, "twilight_civil")
    /\ UNCHANGED <<timeVars, obs, alt, gst, lst, quad, dist, otherVars>>

NextSky ==
    \/ ToGst \/ LocalSiderealTime \/ SunSetTime
    \/ TwilightAstronomical \/ TwilightNautical \/ TwilightCivil

SpecSky == InitSky /\ [][NextSky]_vars

----------------------------------------------------------------------------
(* Properties of the sky *)

\* C5: for every Time t, on either side of J2000, 0 <= t.to_gst() < 360.
GstInRange ==
    (calls = <<"new", "to_gst">>) => (0 <= gst /\ gst < Turn)

\* C6: for every Time t and longitude in [-180, 180],
\* local_sidereal_time(t) is (t.to_gst() + longitude + 360) mod 360 and
\* lies in [0, 360).
LstInRange ==
    (calls = <<"new", "local_sidereal_time">> /\ Abs(obs.lon) <= 180 * Deg) =>
        /\ lst = (to_gst(T) + obs.lon + Turn) % Turn
        /\ 0 <= lst /\ lst < Turn

\* C7: when the hour-angle cosine is outside [-1, 1], sun_set_time signals
\* it (an error or a NaN) and returns no ordinary-looking pair of civil times.
PolarSignalled ==
    (calls = <<"new", "sun_set_time">>
        /\ (sun.w0_cos > TrigOne \/ sun.w0_cos < -TrigOne)) =>
        \/ sun.returned \in {"DomainError", "NaN"}
        \/ ~ValidCivil(sun.sunrise)
        \/ ~ValidCivil(sun.sunset)

\* C8: when the events exist, sunrise and sunset are both at or after the
\* reference instant: after.to_jd() <= JD(sunrise), after.to_jd() <= JD(sunset).
EventsAfterReference ==
    (calls = <<"new", "sun_set_time">>
        /\ sun.w0_cos <= TrigOne /\ sun.w0_cos >= -TrigOne) =>
        /\ JdLeq(to_jd(T0), to_jd(sun.sunrise))
        /\ JdLeq(to_jd(T0), to_jd(sun.sunset))

\* C19: twilight_astronomical(after), twilight_nautical(after) and
\* twilight_civil(after) return exactly sun_set_time(after, -18),
\* sun_set_time(after, -12) and sun_set_time(after, -6), and sun_set_time
\* with no altitude returns exactly sun_set_time(after, -0.833).
TwilightWrappers ==
    /\ calls = <<"new", "twilight_astronomical">> =>
          sun = sun_set_time(obs, T0, {-18 * Deg})
    /\ calls = <<"new", "twilight_nautical">> =>
          sun = sun_set_time(obs, T0, {-12 * Deg})
    /\ calls = <<"new", "twilight_civil">> =>
          sun = sun_set_time(obs, T0, {-6 * Deg})
    /\ (calls = <<"new", "sun_set_time">> /\ alt = {}) =>
          sun = sun_set_time(obs, T0, {-833 * 10^3})

\* C19 at work: civil twilight at Palomar after 2024-09-10 03:00:00 has
\* been answered with the events of the sun at -6 degrees, which are not
\* those at -12 degrees
TwilightWrappersWitness ==
    /\ calls = <<"new", "twilight_civil">>
    /\ obs = Observer(33363368, -116836135, 1870)
    /\ T0 = new(2024, 9, 10, 3, 0, 0)
    /\ sun.returned = "(Time, Time)"
    /\ sun = sun_set_time(obs, T0, {-6 * Deg})
    /\ sun.sunrise # sun_set_time(obs, T0, {-12 * Deg}).sunrise

\* a - b as whole seconds and sub-units, for finite Julian Dates
JdMinus(a, b) ==
    LET ds == (a.day - b.day) * 86400 + (a.sec - b.sec)
        du == a.sub - b.sub
    IN  IF du < 0 THEN [sec |-> ds - 1, sub |-> du + SubPerSec] ELSE [sec |-> ds, sub |-> du]

\* H0/360 day as whole seconds and sub-units, H0 in thousandths of a degree:
\* 0.24 s each
HourAngleSpan(H0) ==
    LET ms == 240 * H0
        r == ms % 1000
    IN  [sec |-> ms \div 1000,
         sub |-> r * (SubPerSec \div 1000) + ((r * (SubPerSec % 1000)) \div 1000)]

\* two spans differ by no more than the rounding of two Julian Dates
SpanNear(x, y) ==
    /\ Abs(x.sec - y.sec) <= 1
    /\ Abs((x.sec - y.sec) * SubPerSec + (x.sub - y.sub)) <= 2 * TickSub

----------------------------------------------------------------------------
(* The quadrature engine *)

MaxSteps == 4      \* largest step count n
MaxBound == 2      \* largest |a|, |b|

Integrands == {[body |-> b] : b \in {"one", "linear", "square", "reciprocal"}}

InitQuad ==
    /\ \E f \in Integrands, a \in -MaxBound..MaxBound, b \in -MaxBound..MaxBound,
          n \in 0..MaxSteps :
            quad = [called |-> FALSE, f |-> f, a |-> Whole(a), b |-> Whole(b), n |-> n]
    /\ calls = <<>>
    /\ T0 = NoTime
    /\ T = NoTime
    /\ J0 = NoJd
    /\ J = NoJd
    /\ RestSky
    /\ dist = NoDist
    /\ OtherIdle

\* result = integrate(f, a, b, n)
Integrate ==
    /\ calls = <<>>
    /\ quad' = [called |-> TRUE, f |-> quad.f, a |-> quad.a, b |-> quad.b, n |-> quad.n,
                 result |-> integrate(quad.f, quad.a, quad.b, quad.n)]
    /\ calls' = Append(calls, "integrate")
    /\ UNCHANGED <<timeVars, skyVars, dist, otherVars>>

NextQuad == Integrate

SpecQuad == InitQuad /\ [][NextQuad]_vars

\* The quadrature engine at the step counts of its callers: 1000 is the
\* count of the documented example and of luminosity_distance
StepCounts == {10, 100, 1000}

InitFine ==
    /\ \E f \in {[body |-> b] : b \in {"one", "linear", "square"}},
          a \in -1..1, b \in -1..1, n \in StepCounts :
            quad = [called |-> FALSE, f |-> f, a |-> Whole(a), b |-> Whole(b), n |-> n]
    /\ calls = <<>>
    /\ T0 = NoTime
    /\ T = NoTime
    /\ J0 = NoJd
    /\ J = NoJd
    /\ RestSky
    /\ dist = NoDist
    /\ OtherIdle

SpecFine == InitFine /\ [][NextQuad]_vars

----------------------------------------------------------------------------
(* The cosmology model *)

\* The cosmologies of the model, each with the constructor that made it:
\* flat, open (omega_k = 0.7) and closed (omega_k = -0.5) ones, one with
\* h0 = 0, one with a negative h0, one with an infinite density (its
\* integrand is NaN), and the preset
Cosmologies ==
    {[made |-> "Cosmo::new", self |-> Cosmo(c[1], c[2], c[3])] :
        c \in {<<Frac(6766, 100), Frac(3103, 10^4), Frac(6897, 10^4)>>,
               <<Whole(70), Frac(3, 10), Whole(0)>>,
               <<Whole(70), Frac(3, 2), Whole(0)>>,
               <<Whole(0), Frac(3, 10), Frac(7, 10)>>,
               <<Whole(-70), Frac(3, 10), Frac(7, 10)>>,
               <<Whole(70), Frac(1, 0), Whole(0)>>}}
      \cup {[made |-> "Plank18::new", self |-> Plank18]}

Redshifts ==
    {Frac(-1, 100), Whole(0), Frac(9, 1000), Frac(1, 100), Frac(11, 1000),
     Frac(1, 2), Whole(1)}

InitCosmo ==
    /\ \E c \in Cosmologies, z \in Redshifts :
          dist = [called |-> FALSE, made |-> c.made, self |-> c.self, z |-> z]
    /\ calls = <<>>
    /\ T0 = NoTime
    /\ T = NoTime
    /\ J0 = NoJd
    /\ J = NoJd
    /\ RestSky
    /\ quad = NoQuad
    /\ OtherIdle

\* dist once `method` has returned `result`
Returned(method, result) ==
    [called |-> TRUE, made |-> dist.made, self |-> dist.self, z |-> dist.z,
     method |-> method, result |-> result]

\* result = self.luminosity_distance(z)
LuminosityDistance ==
    /\ ~dist.called
    /\ dist' = Returned("luminosity_distance",
                        IF dist.made = "Plank18::new"
                        THEN Plank18_luminosity_distance(dist.self, dist.z)
                        ELSE luminosity_distance(dist.self, dist.z))
    /\ calls' = Append(calls, "luminosity_distance")
    /\ UNCHANGED <<timeVars, skyVars, quad, otherVars>>

\* result = self.dm(z)
Dm ==
    /\ ~dist.called
    /\ dist' = Returned("dm",
                        IF dist.made = "Plank18::new"
                        THEN Plank18_dm(dist.self, dist.z)
                        ELSE dm(dist.self, dist.z))
    /\ calls' = Append(calls, "dm")
    /\ UNCHANGED <<timeVars, skyVars, quad, otherVars>>

\* result = self.angular_diameter_distance(z)
AngularDiameterDistance ==
    /\ ~dist.called
    /\ dist' = Returned("angular_diameter_distance",
                        IF dist.made = "Plank18::new"
                        THEN Plank18_angular_diameter_distance(dist.self, dist.z)
                        ELSE angular_diameter_distance(dist.self, dist.z))
    /\ calls' = Append(calls, "angular_diameter_distance")
    /\ UNCHANGED <<timeVars, skyVars, quad, otherVars>>

NextCosmo == LuminosityDistance \/ Dm \/ AngularDiameterDistance

SpecCosmo == InitCosmo /\ [][NextCosmo]_vars

----------------------------------------------------------------------------
(* Properties of the quadrature engine *)

\* the i-th of the n + 1 equally spaced nodes from a to b
Node(a, b, n, i) == QAdd(a, QMul(Whole(i), QDiv(QSub(b, a), Whole(n))))

RECURSIVE WeightedSum(_, _, _, _, _)
\* f(x_0)/2 + f(x_1) + ... + f(x_(i-1)) + f(x_i)/2 taken down from i = n
WeightedSum(f, a, b, n, i) ==
    LET w == IF i = 0 \/ i = n THEN Frac(1, 2) ELSE Whole(1)
        term == QMul(w, Apply(f, Node(a, b, n, i)))
    IN  IF i = 0 THEN term ELSE QAdd(WeightedSum(f, a, b, n, i - 1), term)

\* the composite trapezoid sum (h/2) (f(a) + f(b) + 2 sum_{i=1..n-1} f(a + i h))
Trapezoid(f, a, b, n) ==
    QMul(QDiv(QSub(b, a), Whole(n)), WeightedSum(f, a, b, n, n))

\* C9: integrate with n = 0 fails with InvalidArgument: it does not divide
\* by n and returns no number.
ZeroStepsRejected ==
    (quad.called /\ quad.n = 0) => quad.result.returned = "InvalidArgument"

\* C10: for n >= 1, integrate is the composite trapezoid sum and evaluates f
\* at exactly the n + 1 equally spaced nodes a, a + h, ..., b.
TrapezoidRule ==
    (quad.called /\ quad.n >= 1) =>
        LET r == quad.result
            n == quad.n
        IN  /\ r.value = Trapezoid(quad.f, quad.a, quad.b, n)
            /\ Len(r.evaluated) = n + 1
            /\ \A i \in 0..n :
                   Cardinality({k \in 1..Len(r.evaluated) :
                                  r.evaluated[k] = Node(quad.a, quad.b, n, i)})
                     = Cardinality({j \in 0..n :
                                  Node(quad.a, quad.b, n, j) = Node(quad.a, quad.b, n, i)})

\* C10 at work: x^2 has been integrated over [0, 2] in 4 steps, at the five
\* nodes 0, 1/2, 1, 3/2, 2, to 11/4
TrapezoidRuleWitness ==
    /\ quad.called
    /\ quad.f.body = "square" /\ quad.a = Whole(0) /\ quad.b = Whole(2) /\ quad.n = 4
    /\ quad.result.value = Frac(11, 4)
    /\ quad.result.evaluated = <<Frac(1, 2), Whole(1), Frac(3, 2), Whole(0), Whole(2)>>

SquareExample ==
    (quad.called /\ quad.f.body = "square" /\ quad.a = Whole(0) /\ quad.b = Whole(1)) =>
        LET error == QSub(quad.result.value, Frac(1, 3))
        IN  /\ error = Frac(1, 6 * quad.n * quad.n)
            /\ quad.n = 1000 =>
                  QLess(error, Frac(1, 10^6)) /\ QLess(Frac(-1, 10^6), error)

\* C13 at work: the documented call has returned 0.3333335
SquareExampleWitness ==
    /\ quad.called
    /\ quad.f.body = "square" /\ quad.a = Whole(0) /\ quad.b = Whole(1) /\ quad.n = 1000
    /\ Len(quad.result.evaluated) = 1001
    /\ quad.result.value = Frac(666667, 2 * 10^6)

----------------------------------------------------------------------------
(* Properties of the cosmology model *)

\* The Cosmo the call is made on: the preset's is its base
Params == IF dist.made = "Plank18::new" THEN dist.self.base ELSE dist.self

ThresholdKept ==
    (dist.called /\ dist.method = "angular_diameter_distance") =>
        LET d_lum == luminosity_distance(Params, dist.z)
        IN  IF QLess(Frac(1, 100), dist.z)
            THEN dist.result = RMul(d_lum, QDiv(Whole(1), powi(QAdd(Whole(1), dist.z), 2)))
            ELSE dist.result = d_lum

\* C15 at work: at z = 0.01 exactly the flat cosmology returns its
\* luminosity distance, 44.649 Mpc, not that divided by 1.01^2
ThresholdKeptWitness ==
    /\ dist.called /\ dist.method = "angular_diameter_distance"
    /\ dist.z = Frac(1, 100)
    /\ dist.self = Cosmo(Frac(6766, 100), Frac(3103, 10^4), Frac(6897, 10^4))
    /\ dist.result = Frac(44649, 1000)
    /\ RMul(dist.result, QDiv(Whole(1), powi(Frac(101, 100), 2))) = Frac(43769, 1000)

\* the comoving distance (C / h0) * integrate(integrand, 0, z, 1000) with
\* C = 299792.458
Comoving(cosmo, z) ==
    RMul(QDiv(Frac(299792458, 1000), cosmo.h0),
         integrate([body |-> "integrand", self |-> cosmo], Whole(0), z, 1000).value)

\* C16: whatever omega_k is (zero, positive or negative),
\* luminosity_distance(z) is (1 + z)^2 * d_c / (1 + z) with d_c the comoving
\* distance: no branch on the curvature changes the result.
NoCurvatureBranch ==
    (dist.called /\ dist.method = "luminosity_distance") =>
        dist.result = RMul(powi(QAdd(Whole(1), dist.z), 2),
                           RMul(Comoving(Params, dist.z),
                                QDiv(Whole(1), QAdd(Whole(1), dist.z))))

\* C16 at work: the closed cosmology (omega_k = -1/2) has returned
\* 2264.054 Mpc for z = 1/2, 1.5^2 times its transverse distance
NoCurvatureBranchWitness ==
    /\ dist.called /\ dist.method = "luminosity_distance"
    /\ Params.omega_k = Frac(-1, 2)
    /\ dist.z = Frac(1, 2)
    /\ dist.result = Frac(1132027, 500)
    /\ dist.result = RMul(Frac(9, 4), RMul(Comoving(Params, dist.z), Frac(2, 3)))

\* C17: the preset is Cosmo::new(67.66, 0.3103, 0.6897) to every observer:
\* the same h0, omega_m, omega_lambda and omega_k = 1 - omega_m -
\* omega_lambda, and for every redshift the same luminosity_distance, dm
\* and angular_diameter_distance.
PresetIsBase ==
    dist.made = "Plank18::new" =>
        LET base == Cosmo(Frac(6766, 100), Frac(3103, 10^4), Frac(6897, 10^4))
        IN  /\ dist.self.base.h0 = Frac(6766, 100)
            /\ dist.self.base.omega_m = Frac(3103, 10^4)
            /\ dist.self.base.omega_lambda = Frac(6897, 10^4)
            /\ dist.self.base.omega_k
                  = QSub(QSub(Whole(1), dist.self.base.omega_m), dist.self.base.omega_lambda)
            /\ dist.self.base = base
            /\ dist.called =>
                  dist.result =
                    CASE dist.method = "luminosity_distance" ->
                           luminosity_distance(base, dist.z)
                      [] dist.method = "dm" -> dm(base, dist.z)
                      [] dist.method = "angular_diameter_distance" ->
                           angular_diameter_distance(base, dist.z)

\* C17 at work: the preset has returned the distance modulus 44.161 for
\* z = 1, as Cosmo::new(67.66, 0.3103, 0.6897) does
PresetIsBaseWitness ==
    /\ dist.made = "Plank18::new"
    /\ dist.called /\ dist.method = "dm" /\ dist.z = Whole(1)
    /\ dist.result = Frac(44161, 1000)
    /\ dist.result = dm(Cosmo(Frac(6766, 100), Frac(3103, 10^4), Frac(6897, 10^4)), Whole(1))

\* the integrand of cosmo is positive at 0, z1 and z2
PositiveIntegrand(cosmo, z1, z2) ==
    \A x \in {Whole(0), z1, z2} : QLess(Whole(0), integrand(cosmo, x))

----------------------------------------------------------------------------
(* Airmasses: Observer::targets_airmasses on a list of targets and a list  *)
(* of times, and Target::airmass on one target and one time of them        *)

\* Palomar, and a place in the south at sea level
AirObservers == {Observer(33363368, -116836135, 1870), Observer(-33000000, 116000000, 0)}

\* the target of the documentation, one in the south, one by the pole
TargetLists ==
    {<<Target(6374817, 20242942, {})>>,
     <<Target(6374817, 20242942, {}), Target(250500000, -45000000, {"south"})>>,
     <<Target(120000000, 85000000, {"polar"}), Target(6374817, 20242942, {})>>}

TimeLists ==
    {<<new(2024, 8, 24, 6, 35, 34)>>,
     <<new(2024, 8, 24, 0, 0, 0), new(2024, 8, 24, 12, 0, 0)>>,
     <<new(2024, 8, 24, 6, 35, 34), new(2024, 2, 29, 21, 30, 0)>>}

InitAir ==
    /\ obs \in AirObservers
    /\ air \in {[called |-> FALSE, targets |-> tl, times |-> ts, matrix |-> <<>>, got |-> <<>>] :
                    tl \in TargetLists, ts \in TimeLists}
    /\ calls = <<>>
    /\ T0 = NoTime /\ T = NoTime /\ J0 = NoJd /\ J = NoJd
    /\ alt = {} /\ gst = 0 /\ lst = 0 /\ sun = NoSun
    /\ quad = NoQuad /\ dist = NoDist
    /\ args = <<>> /\ M = NoMjd /\ fmt = NoFmt /\ str = <<>>
    /\ shared = NoShared /\ threads = <<>>

\* matrix = obs.targets_airmasses(&targets, &times)
TargetsAirmasses ==
    /\ ~air.called
    /\ air' = [air EXCEPT !.called = TRUE,
                          !.matrix = targets_airmasses(obs, air.targets, air.times)]
    /\ calls' = Append(calls, "targets_airmasses")
    /\ UNCHANGED <<timeVars, obs, alt, gst, lst, sun, quad, dist,
                   args, M, fmt, str, shared, threads>>

\* got[i][j] = targets[i].airmass(&obs, &times[j]), for a pair not yet asked
Airmass ==
    \E i \in 1..Len(air.targets), j \in 1..Len(air.times) :
        /\ <<i, j>> \notin DOMAIN air.got
        /\ air' = [air EXCEPT !.got = [ij \in DOMAIN air.got \cup {<<i, j>>} |->
                        IF ij = <<i, j>> THEN airmass(air.targets[i], obs, air.times[j])
                        ELSE air.got[ij]]]
        /\ calls' = Append(calls, "airmass")
        /\ UNCHANGED <<timeVars, obs, alt, gst, lst, sun, quad, dist,
                       args, M, fmt, str, shared, threads>>

NextAir == TargetsAirmasses \/ Airmass

SpecAir == InitAir /\ [][NextAir]_vars

----------------------------------------------------------------------------
(* Properties of the airmasses *)

\* C27: targets_airmasses returns a row for each target and a column for
\* each time, and the entry of row i and column j is the value that
\* targets[i].airmass(observer, times[j]) returns, below the horizon too.
MatrixOfAirmasses ==
    air.called =>
        /\ Len(air.matrix) = Len(air.targets)
        /\ \A i \in 1..Len(air.targets) : Len(air.matrix[i]) = Len(air.times)
        /\ \A ij \in DOMAIN air.got : air.matrix[ij[1]][ij[2]] = air.got[ij]

\* the altitude of the target of pair ij of the call
AltitudeAt(ij) == altitude(air.targets[ij[1]], obs, air.times[ij[2]])

\* x is a finite number above zero
FinitePositive(x) == x.den > 0 /\ x.num > 0

\* C28: Target::airmass returns minus infinity exactly when the altitude of
\* the target is at or below zero, and a finite number above zero for every
\* altitude above zero and up to 90 degrees.
AirmassByHorizon ==
    \A ij \in DOMAIN air.got :
        LET a == AltitudeAt(ij)
        IN  /\ (air.got[ij] = Frac(-1, 0)) <=> (a.den > 0 /\ a.num <= 0)
            /\ (a.den > 0 /\ a.num > 0 /\ ~QLess(Whole(90), a)) => FinitePositive(air.got[ij])

\* C28 at work: from Palomar on 2024-08-24 the target of the documentation
\* is 29.4 degrees under the horizon at 00:00:00, where its airmass is
\* minus infinity, and 60.3 degrees above it at 12:00:00, where it is 1.151
AirmassByHorizonWitness ==
    /\ obs = Observer(33363368, -116836135, 1870)
    /\ air.targets[1] = Target(6374817, 20242942, {})
    /\ air.times = <<new(2024, 8, 24, 0, 0, 0), new(2024, 8, 24, 12, 0, 0)>>
    /\ DOMAIN air.got = {<<1, 1>>, <<1, 2>>}
    /\ AltitudeAt(<<1, 1>>) = Frac(-29432, 1000)
    /\ air.got[<<1, 1>>] = Frac(-1, 0)
    /\ AltitudeAt(<<1, 2>>) = Frac(60290, 1000)
    /\ air.got[<<1, 2>>] = Frac(1151, 1000)

----------------------------------------------------------------------------
(* The sexagesimal formatters called on a right ascension and a            *)
(* declination                                                             *)

\* around the ends of (0, 360], and inside
RaInputs == {-90 * Deg, -1, 0, 1, 6374817, 15 * Deg, 180 * Deg, 250500001,
             360 * Deg - 1, 360 * Deg, 360 * Deg + 1}

\* around the ends of (-90, 90), and inside
DecInputs == {-90 * Deg - 1, -90 * Deg, -90 * Deg + 1, -45 * Deg, -500000, 0, 1,
              20242942, 90 * Deg - 1, 90 * Deg, 90 * Deg + 1}

InitFmt ==
    /\ args \in {<<ra, dec>> : ra \in RaInputs, dec \in DecInputs}
    /\ fmt = [called |-> FALSE, results |-> <<>>]
    /\ calls = <<>>
    /\ T0 = NoTime /\ T = NoTime /\ J0 = NoJd /\ J = NoJd
    /\ obs = Observer(0, 0, 0) /\ alt = {} /\ gst = 0 /\ lst = 0 /\ sun = NoSun
    /\ quad = NoQuad /\ dist = NoDist
    /\ M = NoMjd /\ air = NoAir /\ str = <<>>
    /\ shared = NoShared /\ threads = <<>>

\* the call `name`, not made before, ends with `result`
Formatted(name, result) ==
    /\ name \notin DOMAIN fmt.results
    /\ fmt' = [called |-> TRUE,
               results |-> [n \in DOMAIN fmt.results \cup {name} |->
                               IF n = name THEN result ELSE fmt.results[n]]]
    /\ calls' = Append(calls, name)
    /\ UNCHANGED <<timeVars, obs, alt, gst, lst, sun, quad, dist,
                   args, M, air, str, shared, threads>>

\* deg2hms(ra)
Deg2hms == Formatted("deg2hms", deg2hms(args[1]))

\* deg2dms(dec)
Deg2dms == Formatted("deg2dms", deg2dms(args[2]))

\* Target::new(ra, dec, None).radec2hmsdms()
Radec2hmsdms == Formatted("radec2hmsdms", radec2hmsdms(Target(args[1], args[2], {})))

NextFmt == Deg2hms \/ Deg2dms \/ Radec2hmsdms

SpecFmt == InitFmt /\ [][NextFmt]_vars

----------------------------------------------------------------------------
(* Properties of the sexagesimal formatters *)

\* the call `name` was made and ended in a panic / returned a text
Panicked(name) == name \in DOMAIN fmt.results /\ fmt.results[name].panic
ReturnedText(name) ==
    name \in DOMAIN fmt.results /\ ~fmt.results[name].panic
        /\ fmt.results[name].text \in STRING

\* C29: deg2hms fails for every deg at or below 0 or above 360 and returns
\* a text for every deg in (0, 360]; deg2dms fails for every deg at or below
\* -90 or at or above 90 and returns a text for every deg in (-90, 90);
\* radec2hmsdms fails when either of the two does.
FormattersRanges ==
    /\ "deg2hms" \in DOMAIN fmt.results =>
            IF args[1] <= 0 \/ args[1] > 360 * Deg
            THEN Panicked("deg2hms") ELSE ReturnedText("deg2hms")
    /\ "deg2dms" \in DOMAIN fmt.results =>
            IF args[2] <= -90 * Deg \/ args[2] >= 90 * Deg
            THEN Panicked("deg2dms") ELSE ReturnedText("deg2dms")
    /\ "radec2hmsdms" \in DOMAIN fmt.results =>
            (Panicked("radec2hmsdms") <=>
                (args[1] <= 0 \/ args[1] > 360 * Deg
                    \/ args[2] <= -90 * Deg \/ args[2] >= 90 * Deg))

\* C29 at work: 360 degrees is the last right ascension taken, and reads
\* 24:00:00.0000; -90 degrees is the first declination refused; the pair of
\* them is refused
FormattersRangesWitness ==
    /\ args = <<360 * Deg, -90 * Deg>>
    /\ DOMAIN fmt.results = {"deg2hms", "deg2dms", "radec2hmsdms"}
    /\ fmt.results["deg2hms"] = Return("24:00:00.0000")
    /\ fmt.results["deg2dms"] = Panic("Invalid DEC input: -90")
    /\ fmt.results["radec2hmsdms"] = Panic("Invalid DEC input: -90")

----------------------------------------------------------------------------
(* Time::from_isot_str called on RFC 3339 texts *)

IsoDates == {"2019-12-31", "2020-01-01", "2024-02-29", "2024-08-24"}
IsoClocks == {"00:00:00", "06:35:34", "22:00:00", "23:59:59"}
IsoOffsets == {"Z", "+00:00", "+02:00", "-05:00", "+05:30"}

IsoTexts == {d \o "T" \o c \o o : d \in IsoDates, c \in IsoClocks, o \in IsoOffsets}

InitIsot ==
    /\ str \in IsoTexts
    /\ calls = <<>>
    /\ T0 = NoTime /\ T = NoTime /\ J0 = NoJd /\ J = NoJd
    /\ obs = Observer(0, 0, 0) /\ alt = {} /\ gst = 0 /\ lst = 0 /\ sun = NoSun
    /\ quad = NoQuad /\ dist = NoDist
    /\ args = <<>> /\ M = NoMjd /\ air = NoAir /\ fmt = NoFmt
    /\ shared = NoShared /\ threads = <<>>

\* T = Time::from_isot_str(str)
FromIsotStr ==
    /\ calls = <<>>
    /\ T' = from_isot_str(str)
    /\ calls' = <<"from_isot_str">>
    /\ UNCHANGED <<T0, J0, J, obs, alt, gst, lst, sun, quad, dist,
                   args, M, air, fmt, str, shared, threads>>

\* J = T.to_jd()
IsotToJd ==
    /\ calls = <<"from_isot_str">>
    /\ J' = to_jd(T)
    /\ calls' = Append(calls, "to_jd")
    /\ UNCHANGED <<T0, T, J0, obs, alt, gst, lst, sun, quad, dist,
                   args, M, air, fmt, str, shared, threads>>

NextIsot == FromIsotStr \/ IsotToJd

SpecIsot == InitIsot /\ [][NextIsot]_vars

----------------------------------------------------------------------------
(* Properties of Time::from_isot_str *)

\* midnight of the day before t's
PrevDay(t) ==
    IF t.day > 1 THEN MkTime(t.year, t.month, t.day - 1, 0, 0, 0)
    ELSE IF t.month > 1
         THEN MkTime(t.year, t.month - 1, DaysInMonth(t.year, t.month - 1), 0, 0, 0)
    ELSE MkTime(t.year - 1, 12, 31, 0, 0, 0)

\* the civil time in UTC of the instant that reads `local` on clocks set
\* `east` seconds ahead of UTC, for offsets of less than a day
UtcCivil(local, east) ==
    LET s == local.hour * 3600 + local.minute * 60 + local.second - east
        date == IF s < 0 THEN PrevDay(local) ELSE IF s >= 86400 THEN NextDay(local) ELSE local
        r == s % 86400
    IN  MkTime(date.year, date.month, date.day, r \div 3600, (r % 3600) \div 60, r % 60)

\* C30: for every well-formed RFC 3339 text, whatever its offset,
\* from_isot_str returns the civil time in UTC of the instant, so that texts
\* of one instant with different offsets give equal Times.
IsotIsUtc ==
    (calls # <<>> /\ parse_from_rfc3339(str).ok) =>
        T = UtcCivil(parse_from_rfc3339(str).local, parse_from_rfc3339(str).offset)

----------------------------------------------------------------------------
(* Calls made from several threads on the same inputs.  The inputs are     *)
(* lent to every thread: a Time, a Julian Date, an Observer, a solar       *)
(* altitude, a Cosmo and a redshift.  A thread makes a call, reads the     *)
(* inputs that the call takes one at a time, in the order of its           *)
(* parameters, and returns; the threads' steps interleave freely.          *)

ThreadIds == {1, 2}

\* the inputs each method takes: self first, then its parameters
Borrowed(method) ==
    CASE method = "to_jd" -> <<"time">>
      [] method = "from_jd" -> <<"jd">>
      [] method = "to_gst" -> <<"time">>
      [] method = "local_sidereal_time" -> <<"observer", "time">>
      [] method = "luminosity_distance" -> <<"cosmo", "z">>
      [] method = "sun_set_time" -> <<"observer", "time", "solar_alt">>

Methods == {"to_jd", "from_jd", "to_gst", "local_sidereal_time", "luminosity_distance",
            "sun_set_time"}

\* what the method returns for the inputs it has read
Invoke(method, frame) ==
    CASE method = "to_jd" -> to_jd(frame.time)
      [] method = "from_jd" -> from_jd(frame.jd)
      [] method = "to_gst" -> to_gst(frame.time)
      [] method = "local_sidereal_time" -> local_sidereal_time(frame.observer, frame.time)
      [] method = "luminosity_distance" -> luminosity_distance(frame.cosmo, frame.z)
      [] method = "sun_set_time" -> sun_set_time(frame.observer, frame.time, frame.solar_alt)

\* a method that leaves the Time it was lent set to noon
Effects_NoonSet(method, inputs) ==
    [inputs EXCEPT !.time = MkTime(inputs.time.year, inputs.time.month, inputs.time.day, 12, 0, 0)]

\* what a method leaves in the inputs it was lent: each takes &self and
\* shared references or copies, has no static and no interior mutability,
\* and so writes to none of them
Effects(method, inputs) == inputs

NoThread == [pc |-> "idle", call |-> "", frame |-> <<>>, result |-> <<>>]

InitThreads ==
    /\ T0 = new(2024, 8, 24, 6, 35, 34)
    /\ J0 = MkJd(2460370, 43199, 0)
    /\ obs = Observer(33363368, -116836135, 1870)
    /\ alt \in {{}, {-18 * Deg}}
    /\ args = <<Cosmo(Whole(70), Frac(3, 10), Frac(7, 10)), Frac(1, 2)>>
    /\ shared = [lent |-> TRUE, time |-> T0, jd |-> J0, observer |-> obs, solar_alt |-> alt,
                 cosmo |-> args[1], z |-> args[2]]
    /\ threads = [t \in ThreadIds |-> NoThread]
    /\ calls = <<>>
    /\ T = NoTime /\ J = NoJd /\ gst = 0 /\ lst = 0 /\ sun = NoSun
    /\ quad = NoQuad /\ dist = NoDist
    /\ M = NoMjd /\ air = NoAir /\ fmt = NoFmt /\ str = <<>>

threadFixed == <<calls, timeVars, obs, alt, gst, lst, sun, quad, dist, args, M, air, fmt, str>>

\* thread t enters a method
Call(t) ==
    /\ threads[t].pc = "idle"
    /\ \E method \in Methods :
          threads' = [threads EXCEPT ![t] = [NoThread EXCEPT !.pc = "reading", !.call = method]]
    /\ UNCHANGED <<shared, threadFixed>>

\* thread t reads the next input of its method
Read(t) ==
    LET th == threads[t]
        names == Borrowed(th.call)
        k == Cardinality(DOMAIN th.frame) + 1
    IN  /\ th.pc = "reading"
        /\ k <= Len(names)
        /\ threads' = [threads EXCEPT ![t].frame =
                          [n \in DOMAIN th.frame \cup {names[k]} |->
                              IF n = names[k] THEN shared[n] ELSE th.frame[n]]]
        /\ UNCHANGED <<shared, threadFixed>>

\* thread t computes its result and returns
Finish(t) ==
    LET th == threads[t]
    IN  /\ th.pc = "reading"
        /\ Cardinality(DOMAIN th.frame) = Len(Borrowed(th.call))
        /\ threads' = [threads EXCEPT ![t].pc = "done",
                                      ![t].result = Invoke(th.call, th.frame)]
        /\ shared' = Effects(th.call, shared)
        /\ UNCHANGED threadFixed

NextThreads == \E t \in ThreadIds : Call(t) \/ Read(t) \/ Finish(t)

SpecThreads == InitThreads /\ [][NextThreads]_vars

----------------------------------------------------------------------------
(* Properties of concurrent calls *)

\* the inputs as they were lent
Lent == [time |-> T0, jd |-> J0, observer |-> obs, solar_alt |-> alt,
         cosmo |-> args[1], z |-> args[2]]

====
